---- MODULE Spec2Model ----
(***************************************************************************)
(* A model of the streaming session of retail-sample-client-go: WSClient   *)
(* (client/websocket.go), its two reader goroutines, the buffered message  *)
(* channel, and the consumer of Messages().                                *)
(*                                                                         *)
(* The specifications share the actions below.                             *)
(*   Spec      one controlling thread connects and closes the session; the *)
(*             two readers receive frames and the consumer drains the      *)
(*             channel.                                                    *)
(*   FairSpec  Spec with the goroutines fairly scheduled.                  *)
(*   SpecCalls several threads call the session's API concurrently; the    *)
(*             mutex, the request-id counter and the frames written to     *)
(*             each socket are observed.  The readers started by Connect   *)
(*             touch none of that state and are not scheduled there.       *)
(*   SpecFull  the readers on the channel at the code's capacity of 100,   *)
(*             one socket delivering 101 data frames and nobody receiving. *)
(* In these, the callers follow the documented life cycle of a session:    *)
(* Connect is called on a session that is not connected and not closed,    *)
(* Close is called once.                                                   *)
(*   SpecReuse the callers do not: Connect and Close are called at any     *)
(*             time, as the code lets them.                                *)
(***************************************************************************)
EXTENDS Naturals, Sequences, FiniteSets, TLC

\* ---------------------------------------------------------------- bounds
\* The channel's capacity, scaled down from the code's 100 (NewWSClient).
QueueCap == 2
\* Frames the two sockets deliver in all before the wires go silent.
MaxFrames == 3
\* Subscribe, Unsubscribe and IsConnected calls made in all.
MaxCalls == 2
\* Successful Connects after which a session used out of its life cycle is
\* not connected again.
MaxConnects == 2

\* ------------------------------------------------------------- constants
Socks == {"private", "markets"}
Threads == {"t1", "t2"}
NoOne == "none"

\* The subscribe operations, named by the prefix each passes to nextRequestID.
Kinds == {"order", "position", "balance", "marketdata", "marketdatalite", "trade"}

\* make(chan *models.WSMessage, 100)
ChanCap == 100

SubscriptionTypeOrder == 1
SubscriptionTypePosition == 3
SubscriptionTypeAccountBalance == 4
SubscriptionTypeMarketData == 1
SubscriptionTypeMarketDataLite == 2
SubscriptionTypeTrade == 3

\* SubscriptionType field each Subscribe* puts in its request.
SubscriptionType(kind) ==
    CASE kind = "order" -> SubscriptionTypeOrder
      [] kind = "position" -> SubscriptionTypePosition
      [] kind = "balance" -> SubscriptionTypeAccountBalance
      [] kind = "marketdata" -> SubscriptionTypeMarketData
      [] kind = "marketdatalite" -> SubscriptionTypeMarketDataLite
      [] kind = "trade" -> SubscriptionTypeTrade

\* Mutant: every subscribe goes out on the private socket.
SendSocketPrivate(kind) == "private"

\* The send function each Subscribe* calls: sendPrivate or sendMarkets.
SendSocket(kind) ==
    IF kind \in {"order", "position", "balance"} THEN "private" ELSE "markets"

\* ---------------------------------------------------------------- frames
\* An inbound frame: text that json.Unmarshal rejects, or a JSON object with
\* some of WSMessage's payload keys present.
Malformed == [ok |-> FALSE, keys |-> {}]
Json(keys) == [ok |-> TRUE, keys |-> keys]
FrameChoices ==
    { Malformed,
      Json({"heartbeat"}),
      Json({"marketData"}),
      Json({"heartbeat", "marketData"}) }

\* json.Unmarshal(message, &msg): an error, or the message with the pointer
\* fields of the keys present set.
Unmarshal(frame) ==
    IF frame.ok THEN [err |-> FALSE, fields |-> frame.keys]
    ELSE [err |-> TRUE, fields |-> {}]

\* Mutant: a heartbeat is only a frame that carries nothing else.
IsHeartbeatAlone(fields) == fields = {"heartbeat"}

\* msg.Heartbeat != nil
IsHeartbeat(fields) == "heartbeat" \in fields

VARIABLES
    \* WSClient
    conn,        \* privateConn, marketsConn: "nil", or the socket's state
    mu,          \* the thread holding c.mu, or NoOne
    done,        \* TRUE once c.done is closed
    messages,    \* the buffered channel c.messages
    requestID,   \* c.requestID
    connected,   \* c.connected
    crashed,     \* the process panicked (close of a closed channel)
    \* reader goroutines
    rpc,         \* where each reader is
    rframe,      \* the frame a reader has received and not yet handled
    \* API callers
    cpc,         \* where each caller is
    carg,        \* the call's arguments and locals
    ret,         \* what the caller's last call returned
    writing,     \* per socket, the threads inside WriteMessage
    \* the environment and the record of what happened
    wire,        \* the frames ReadMessage has returned, in order of arrival
    dropped,     \* the arrivals dropped on a full channel, by index in wire
    delivered,   \* the messages the consumer has received
    sent,        \* per socket, the frames written
    issued,      \* the ids nextRequestID has returned
    closeLog,    \* per socket, the outcome of the Close that Close() called
    calls,       \* Subscribe, Unsubscribe and IsConnected calls started
    live,        \* per socket, the connections dialled and not yet closed
    spawned,     \* the reader goroutines Connect has started
    \* the parts of the program outside the session
    enc,         \* a subscribe request being built, marshalled and decoded
    sig,         \* a request or a handshake being signed
    rest,        \* a REST call inside doRequest
    demo         \* the demo workflow of main

vars == <<conn, mu, done, messages, requestID, connected, crashed, rpc, rframe,
          cpc, carg, ret, writing, wire, dropped, delivered, sent, issued,
          closeLog, calls, live, spawned, enc, sig, rest, demo>>

clientVars == <<conn, mu, done, requestID, connected, crashed>>
readerVars == <<rpc, rframe>>
callerVars == <<cpc, carg, ret, writing>>
queueVars == <<messages, wire, dropped, delivered>>
logVars == <<sent, issued, closeLog>>
lifeVars == <<live, spawned>>
auxVars == <<enc, sig, rest, demo>>
sessionVars == <<clientVars, readerVars, callerVars, queueVars, logVars, calls,
                 lifeVars>>

NoArg == [op |-> "none", kind |-> "none", priv |-> FALSE, id |-> <<"none", 0>>,
          reg |-> 0, errs |-> 0]
NoFrame == [frame |-> Malformed, seq |-> 0]
NoRet == [op |-> "none", err |-> "none", id |-> <<"none", 0>>, val |-> FALSE]

\* Nothing under way outside the session.
NoEnc == [stage |-> "none"]
NoSig == [stage |-> "none"]
NoRest == [pc |-> "none"]
NoDemo == [pc |-> "none"]

\* NewWSClient: both connections nil, done open, an empty channel, counter 0.
InitSession ==
    /\ conn = [s \in Socks |-> "nil"]
    /\ mu = NoOne
    /\ done = FALSE
    /\ messages = <<>>
    /\ requestID = 0
    /\ connected = FALSE
    /\ crashed = FALSE
    /\ rpc = [s \in Socks |-> "none"]
    /\ rframe = [s \in Socks |-> NoFrame]
    /\ cpc = [t \in Threads |-> "idle"]
    /\ carg = [t \in Threads |-> NoArg]
    /\ ret = [t \in Threads |-> NoRet]
    /\ writing = [s \in Socks |-> {}]
    /\ wire = <<>>
    /\ dropped = {}
    /\ delivered = <<>>
    /\ sent = [s \in Socks |-> <<>>]
    /\ issued = <<>>
    /\ closeLog = [s \in Socks |-> "none"]
    /\ calls = 0
    /\ live = [s \in Socks |-> 0]
    /\ spawned = 0

Init ==
    /\ InitSession
    /\ enc = NoEnc /\ sig = NoSig /\ rest = NoRest /\ demo = NoDemo

\* ------------------------------------------------------------ the mutex
Lock(t) == mu = NoOne /\ mu' = t
Unlock(t) == mu' = NoOne

\* A call returns: the caller is idle again and its locals are gone.
Return(t, r) ==
    /\ cpc' = [cpc EXCEPT ![t] = "idle"]
    /\ carg' = [carg EXCEPT ![t] = NoArg]
    /\ ret' = [ret EXCEPT ![t] = r]

Goto(t, pc) == cpc' = [cpc EXCEPT ![t] = pc]

\* ------------------------------------------------------- the life cycle
\* What the callers of the session respect (spec 4.3): Connect on a session
\* that is not connected, not being connected and not closed; Close once,
\* and not while a Connect is running.
Connecting == \E t \in Threads : carg[t].op = "connect"
CloseCalled == done \/ \E t \in Threads : carg[t].op = "close"
MayConnect == ~connected /\ ~Connecting /\ ~CloseCalled
MayClose == ~CloseCalled /\ ~Connecting

\* --------------------------------------------------------------- Connect
CallConnect(t) ==
    /\ ~crashed /\ cpc[t] = "idle" /\ MayConnect
    /\ Goto(t, "connect_lock")
    /\ carg' = [carg EXCEPT ![t] = [NoArg EXCEPT !.op = "connect"]]
    /\ UNCHANGED <<clientVars, readerVars, ret, writing, queueVars, logVars, calls,
                   lifeVars, auxVars>>

ConnectLock(t) ==
    /\ ~crashed /\ cpc[t] = "connect_lock"
    /\ Lock(t)
    /\ Goto(t, "dial_private")
    /\ UNCHANGED <<conn, done, requestID, connected, crashed, readerVars, carg,
                   ret, writing, queueVars, logVars, calls, lifeVars, auxVars>>

\* Mutant: Connect goes on to the markets dial when the private dial failed.
DialPrivateGoOn(t) ==
    /\ ~crashed /\ cpc[t] = "dial_private"
    /\ \E ok \in BOOLEAN :
        IF ok
        THEN /\ conn' = [conn EXCEPT !["private"] = "open"]
             /\ live' = [live EXCEPT !["private"] = @ + 1]
             /\ Goto(t, "dial_markets")
             /\ UNCHANGED <<mu, carg, ret>>
        ELSE /\ Goto(t, "dial_markets")
             /\ UNCHANGED <<mu, carg, ret, conn, live>>
    /\ UNCHANGED <<done, requestID, connected, crashed, readerVars, writing,
                   queueVars, logVars, calls, spawned, auxVars>>

\* privateDialer.Dial: on failure Connect returns, on success the connection
\* is stored.
DialPrivate(t) ==
    /\ ~crashed /\ cpc[t] = "dial_private"
    /\ \E ok \in BOOLEAN :
        IF ok
        THEN /\ conn' = [conn EXCEPT !["private"] = "open"]
             /\ live' = [live EXCEPT !["private"] = @ + 1]
             /\ Goto(t, "dial_markets")
             /\ UNCHANGED <<mu, carg, ret>>
        ELSE /\ Unlock(t)
             /\ Return(t, [NoRet EXCEPT !.op = "connect", !.err = "dial_private"])
             /\ UNCHANGED <<conn, live>>
    /\ UNCHANGED <<done, requestID, connected, crashed, readerVars, writing,
                   queueVars, logVars, calls, spawned, auxVars>>

\* Mutant: a failed markets dial returns without closing the private socket.
DialMarketsLeak(t) ==
    /\ ~crashed /\ cpc[t] = "dial_markets"
    /\ \E ok \in BOOLEAN :
        IF ok
        THEN /\ conn' = [conn EXCEPT !["markets"] = "open"]
             /\ live' = [live EXCEPT !["markets"] = @ + 1]
             /\ connected' = TRUE
             /\ rpc' = [s \in Socks |-> "select"]
             /\ spawned' = spawned + 2
             /\ Return(t, [NoRet EXCEPT !.op = "connect"])
        ELSE /\ Return(t, [NoRet EXCEPT !.op = "connect", !.err = "dial_markets"])
             /\ UNCHANGED <<conn, connected, rpc, live, spawned>>
    /\ Unlock(t)
    /\ UNCHANGED <<done, requestID, crashed, rframe, writing, queueVars,
                   logVars, calls, auxVars>>

\* Mutant: a failed markets dial closes the private socket and clears its
\* slot.
DialMarketsRollback(t) ==
    /\ ~crashed /\ cpc[t] = "dial_markets"
    /\ \E ok \in BOOLEAN :
        IF ok
        THEN /\ conn' = [conn EXCEPT !["markets"] = "open"]
             /\ live' = [live EXCEPT !["markets"] = @ + 1]
             /\ connected' = TRUE
             /\ rpc' = [s \in Socks |-> "select"]
             /\ spawned' = spawned + 2
             /\ Return(t, [NoRet EXCEPT !.op = "connect"])
        ELSE /\ conn' = [conn EXCEPT !["private"] = "nil"]
             /\ live' = [live EXCEPT !["private"] = @ - 1]
             /\ Return(t, [NoRet EXCEPT !.op = "connect", !.err = "dial_markets"])
             /\ UNCHANGED <<connected, rpc, spawned>>
    /\ Unlock(t)
    /\ UNCHANGED <<done, requestID, crashed, rframe, writing, queueVars,
                   logVars, calls, auxVars>>

\* marketsDialer.Dial: on failure the private connection is closed and
\* Connect returns; on success the connection is stored, connected is set
\* and both readers are started.
DialMarkets(t) ==
    /\ ~crashed /\ cpc[t] = "dial_markets"
    /\ \E ok \in BOOLEAN :
        IF ok
        THEN /\ conn' = [conn EXCEPT !["markets"] = "open"]
             /\ live' = [live EXCEPT !["markets"] = @ + 1]
             /\ connected' = TRUE
             /\ rpc' = [s \in Socks |-> "select"]
             /\ spawned' = spawned + 2
             /\ Return(t, [NoRet EXCEPT !.op = "connect"])
        ELSE /\ conn' = [conn EXCEPT !["private"] = "closed"]
             /\ live' = [live EXCEPT !["private"] = @ - 1]
             /\ Return(t, [NoRet EXCEPT !.op = "connect", !.err = "dial_markets"])
             /\ UNCHANGED <<connected, rpc, spawned>>
    /\ Unlock(t)
    /\ UNCHANGED <<done, requestID, crashed, rframe, writing, queueVars,
                   logVars, calls, auxVars>>

\* ----------------------------------------------------------------- Close
CallClose(t) ==
    /\ ~crashed /\ cpc[t] = "idle" /\ MayClose
    /\ Goto(t, "close_lock")
    /\ carg' = [carg EXCEPT ![t] = [NoArg EXCEPT !.op = "close"]]
    /\ UNCHANGED <<clientVars, readerVars, ret, writing, queueVars, logVars, calls,
                   lifeVars, auxVars>>

\* Mutant: Close also empties the channel.
CloseSignalDrain(t) ==
    /\ ~crashed /\ cpc[t] = "close_lock"
    /\ Lock(t)
    /\ IF done
       THEN crashed' = TRUE /\ UNCHANGED <<done, cpc>>
       ELSE done' = TRUE /\ Goto(t, "close_private") /\ UNCHANGED crashed
    /\ messages' = <<>>
    /\ UNCHANGED <<conn, requestID, connected, readerVars, carg, ret, writing,
                   wire, dropped, delivered, logVars, calls, lifeVars, auxVars>>

\* c.mu.Lock(); close(c.done).  Closing a closed channel panics.
CloseSignal(t) ==
    /\ ~crashed /\ cpc[t] = "close_lock"
    /\ Lock(t)
    /\ IF done
       THEN crashed' = TRUE /\ UNCHANGED <<done, cpc>>
       ELSE done' = TRUE /\ Goto(t, "close_private") /\ UNCHANGED crashed
    /\ UNCHANGED <<conn, requestID, connected, readerVars, carg, ret, writing,
                   queueVars, logVars, calls, lifeVars, auxVars>>

\* What conn.Close() may return: an error or nil on an open socket, an error
\* on one closed before.  The socket is closed whatever is returned.
CloseErrors(state) == IF state = "closed" THEN {TRUE} ELSE BOOLEAN

\* Mutant: Close fires the signal and leaves the private socket open.
ClosePrivateSkip(t) ==
    /\ ~crashed /\ cpc[t] = "close_private"
    /\ Goto(t, "close_markets")
    /\ UNCHANGED <<clientVars, readerVars, carg, ret, writing, queueVars,
                   logVars, calls, lifeVars, auxVars>>

\* Mutant: Close returns at the first socket whose Close fails.
ClosePrivateReturnOnError(t) ==
    /\ ~crashed /\ cpc[t] = "close_private"
    /\ live' = [live EXCEPT !["private"] = IF conn["private"] = "open" THEN @ - 1 ELSE @]
    /\ IF conn["private"] # "nil"
       THEN \E err \in CloseErrors(conn["private"]) :
               /\ conn' = [conn EXCEPT !["private"] = "closed"]
               /\ closeLog' = [closeLog EXCEPT !["private"] = IF err THEN "failed" ELSE "ok"]
               /\ IF err
                  THEN /\ Return(t, [NoRet EXCEPT !.op = "close", !.err = "close"])
                       /\ connected' = FALSE
                       /\ Unlock(t)
                  ELSE /\ Goto(t, "close_markets")
                       /\ UNCHANGED <<carg, ret, connected, mu>>
       ELSE /\ Goto(t, "close_markets")
            /\ UNCHANGED <<conn, closeLog, carg, ret, connected, mu>>
    /\ UNCHANGED <<done, requestID, crashed, readerVars, writing, queueVars,
                   sent, issued, calls, spawned, auxVars>>

\* if c.privateConn != nil { if err := c.privateConn.Close(); err != nil {
\*     errs = append(errs, err) } }
ClosePrivate(t) ==
    /\ ~crashed /\ cpc[t] = "close_private"
    /\ live' = [live EXCEPT !["private"] = IF conn["private"] = "open" THEN @ - 1 ELSE @]
    /\ IF conn["private"] # "nil"
       THEN \E err \in CloseErrors(conn["private"]) :
               /\ conn' = [conn EXCEPT !["private"] = "closed"]
               /\ closeLog' = [closeLog EXCEPT !["private"] = IF err THEN "failed" ELSE "ok"]
               /\ carg' = [carg EXCEPT ![t].errs = @ + (IF err THEN 1 ELSE 0)]
       ELSE UNCHANGED <<conn, closeLog, carg>>
    /\ Goto(t, "close_markets")
    /\ UNCHANGED <<mu, done, requestID, connected, crashed, readerVars, ret,
                   writing, queueVars, sent, issued, calls, spawned, auxVars>>

\* The same for c.marketsConn, then c.connected = false, and the return: an
\* error when errs is not empty.
CloseMarkets(t) ==
    /\ ~crashed /\ cpc[t] = "close_markets"
    /\ live' = [live EXCEPT !["markets"] = IF conn["markets"] = "open" THEN @ - 1 ELSE @]
    /\ IF conn["markets"] # "nil"
       THEN \E err \in CloseErrors(conn["markets"]) :
               /\ conn' = [conn EXCEPT !["markets"] = "closed"]
               /\ closeLog' = [closeLog EXCEPT !["markets"] = IF err THEN "failed" ELSE "ok"]
               /\ Return(t, [NoRet EXCEPT !.op = "close",
                       !.err = IF carg[t].errs + (IF err THEN 1 ELSE 0) > 0
                               THEN "close" ELSE "none"])
       ELSE /\ UNCHANGED <<conn, closeLog>>
            /\ Return(t, [NoRet EXCEPT !.op = "close",
                    !.err = IF carg[t].errs > 0 THEN "close" ELSE "none"])
    /\ connected' = FALSE
    /\ Unlock(t)
    /\ UNCHANGED <<done, requestID, crashed, readerVars, writing, queueVars,
                   sent, issued, calls, spawned, auxVars>>

\* --------------------------------------------------------------- readers
\* Mutant: the reader goes on to ReadMessage without looking at done.
ReaderSelectIgnoringDone(s) ==
    /\ ~crashed /\ rpc[s] = "select"
    /\ rpc' = [rpc EXCEPT ![s] = "read"]
    /\ UNCHANGED <<clientVars, rframe, callerVars, queueVars, logVars, calls,
                   lifeVars, auxVars>>

\* select { case <-c.done: return; default: ... }
ReaderSelect(s) ==
    /\ ~crashed /\ rpc[s] = "select"
    /\ rpc' = [rpc EXCEPT ![s] = IF done THEN "exit" ELSE "read"]
    /\ UNCHANGED <<clientVars, rframe, callerVars, queueVars, logVars, calls,
                   lifeVars, auxVars>>

\* ReadMessage returns the socket's next frame.
ReadFrame(s) ==
    /\ ~crashed /\ rpc[s] = "read" /\ conn[s] = "open"
    /\ Len(wire) < MaxFrames
    /\ \E f \in FrameChoices :
        /\ wire' = Append(wire, [sock |-> s, frame |-> f])
        /\ rframe' = [rframe EXCEPT ![s] = [frame |-> f, seq |-> Len(wire')]]
    /\ rpc' = [rpc EXCEPT ![s] = "handle"]
    /\ UNCHANGED <<clientVars, callerVars, messages, dropped, delivered,
                   logVars, calls, lifeVars, auxVars>>

\* Mutant: after a read error the reader goes round its loop again.
ReadErrorContinue(s) ==
    /\ ~crashed /\ rpc[s] = "read" /\ conn[s] = "open"
    /\ rpc' = [rpc EXCEPT ![s] = "select"]
    /\ UNCHANGED <<clientVars, rframe, callerVars, queueVars, logVars, calls,
                   lifeVars, auxVars>>

\* Mutant: a reader that ends on a read error marks the session unconnected.
ReadErrorDisconnects(s) ==
    /\ ~crashed /\ rpc[s] = "read" /\ conn[s] = "open"
    /\ rpc' = [rpc EXCEPT ![s] = "exit"]
    /\ connected' = FALSE
    /\ UNCHANGED <<conn, mu, done, requestID, crashed, rframe, callerVars,
                   queueVars, logVars, calls, lifeVars, auxVars>>

\* ReadMessage returns an error because the peer closed or the network
\* failed: the reader returns.
ReadError(s) ==
    /\ ~crashed /\ rpc[s] = "read" /\ conn[s] = "open"
    /\ rpc' = [rpc EXCEPT ![s] = "exit"]
    /\ UNCHANGED <<clientVars, rframe, callerVars, queueVars, logVars, calls,
                   lifeVars, auxVars>>

\* ReadMessage returns an error because Close closed the socket: the reader
\* returns.
ReadClosed(s) ==
    /\ ~crashed /\ rpc[s] = "read" /\ conn[s] = "closed"
    /\ rpc' = [rpc EXCEPT ![s] = "exit"]
    /\ UNCHANGED <<clientVars, rframe, callerVars, queueVars, logVars, calls,
                   lifeVars, auxVars>>

\* Whether the reader sends the decoded frame to the channel: not when
\* json.Unmarshal failed (continue), not a heartbeat (continue).
Forwarded(frame) ==
    /\ ~Unmarshal(frame).err
    /\ ~IsHeartbeat(Unmarshal(frame).fields)

\* Mutant: on a full channel the oldest message makes room for the new one.
TrySendCapDropOldest(queue, msg, cap) ==
    IF Len(queue) < cap THEN Append(queue, msg) ELSE Append(Tail(queue), msg)

\* select { case c.messages <- &msg: default: }  on a channel of capacity cap.
TrySendCap(queue, msg, cap) ==
    IF Len(queue) < cap THEN Append(queue, msg) ELSE queue

\* Mutant: the send waits for room, so the message is always appended.
SendAlways(queue, msg) == Append(queue, msg)

\* Mutant: the message goes to the front of the channel.
SendFront(queue, msg) ==
    IF Len(queue) < QueueCap THEN <<msg>> \o queue ELSE queue

\* The send on the channel of the scaled capacity QueueCap.
TrySend(queue, msg) == TrySendCap(queue, msg, QueueCap)

\* The message a reader makes of the frame it holds; seq is the frame's place
\* in wire.
Message(s) ==
    [sock |-> s, seq |-> rframe[s].seq, fields |-> Unmarshal(rframe[s].frame).fields]

\* Mutant: the send waits until the channel has room.
ReaderHandleBlocking(s) ==
    /\ ~crashed /\ rpc[s] = "handle"
    /\ IF Forwarded(rframe[s].frame)
       THEN /\ Len(messages) < QueueCap
            /\ messages' = Append(messages, Message(s))
            /\ UNCHANGED dropped
       ELSE UNCHANGED <<messages, dropped>>
    /\ rpc' = [rpc EXCEPT ![s] = "select"]
    /\ rframe' = [rframe EXCEPT ![s] = NoFrame]
    /\ UNCHANGED <<clientVars, callerVars, wire, delivered, logVars, calls,
                   lifeVars, auxVars>>

\* Mutant: a frame that does not decode ends the reader.
ReaderHandleStopOnError(s) ==
    /\ ~crashed /\ rpc[s] = "handle"
    /\ IF Forwarded(rframe[s].frame)
       THEN /\ messages' = TrySend(messages, Message(s))
            /\ dropped' = IF messages' = messages
                          THEN dropped \cup {rframe[s].seq} ELSE dropped
       ELSE UNCHANGED <<messages, dropped>>
    /\ rpc' = [rpc EXCEPT ![s] =
                 IF Unmarshal(rframe[s].frame).err THEN "exit" ELSE "select"]
    /\ rframe' = [rframe EXCEPT ![s] = NoFrame]
    /\ UNCHANGED <<clientVars, callerVars, wire, delivered, logVars, calls,
                   lifeVars, auxVars>>

\* Decode the frame, skip what is not forwarded, send without blocking, loop.
ReaderHandle(s) ==
    /\ ~crashed /\ rpc[s] = "handle"
    /\ IF Forwarded(rframe[s].frame)
       THEN /\ messages' = TrySend(messages, Message(s))
            /\ dropped' = IF messages' = messages
                          THEN dropped \cup {rframe[s].seq} ELSE dropped
       ELSE UNCHANGED <<messages, dropped>>
    /\ rpc' = [rpc EXCEPT ![s] = "select"]
    /\ rframe' = [rframe EXCEPT ![s] = NoFrame]
    /\ UNCHANGED <<clientVars, callerVars, wire, delivered, logVars, calls,
                   lifeVars, auxVars>>

\* -------------------------------------------------------------- consumer
\* Mutant: the consumer is handed the oldest message and it stays queued.
ReceiveReplay ==
    /\ ~crashed /\ messages # <<>> /\ Len(delivered) < MaxFrames
    /\ delivered' = Append(delivered, Head(messages))
    /\ UNCHANGED <<clientVars, readerVars, callerVars, messages, wire, dropped,
                   logVars, calls, lifeVars, auxVars>>

\* msg := <-wsClient.Messages()
Receive ==
    /\ ~crashed /\ messages # <<>>
    /\ delivered' = Append(delivered, Head(messages))
    /\ messages' = Tail(messages)
    /\ UNCHANGED <<clientVars, readerVars, callerVars, wire, dropped, logVars,
                   calls, lifeVars, auxVars>>

\* ------------------------------------------------------- nextRequestID
\* Subscribe*(...): the call starts with nextRequestID(prefix).
CallSubscribe(t, kind) ==
    /\ ~crashed /\ cpc[t] = "idle" /\ calls < MaxCalls
    /\ Goto(t, "nid_lock")
    /\ carg' = [carg EXCEPT ![t] = [NoArg EXCEPT !.op = "subscribe", !.kind = kind]]
    /\ calls' = calls + 1
    /\ UNCHANGED <<clientVars, readerVars, ret, writing, queueVars, logVars,
                   lifeVars, auxVars>>

\* Mutant: nextRequestID does not take the mutex.
NextRequestIDNoLock(t) ==
    /\ ~crashed /\ cpc[t] = "nid_lock"
    /\ Goto(t, "nid_load")
    /\ UNCHANGED <<clientVars, readerVars, carg, ret, writing, queueVars,
                   logVars, calls, lifeVars, auxVars>>

\* c.mu.Lock()
NextRequestIDLock(t) ==
    /\ ~crashed /\ cpc[t] = "nid_lock"
    /\ Lock(t)
    /\ Goto(t, "nid_load")
    /\ UNCHANGED <<conn, done, requestID, connected, crashed, readerVars, carg,
                   ret, writing, queueVars, logVars, calls, lifeVars, auxVars>>

\* c.requestID++ reads the counter ...
NextRequestIDLoad(t) ==
    /\ ~crashed /\ cpc[t] = "nid_load"
    /\ carg' = [carg EXCEPT ![t].reg = requestID]
    /\ Goto(t, "nid_store")
    /\ UNCHANGED <<clientVars, readerVars, ret, writing, queueVars, logVars, calls,
                   lifeVars, auxVars>>

\* Mutant: nextRequestID returns with the mutex held, allocation and send
\* being one critical section.
NextRequestIDStoreKeepLock(t) ==
    /\ ~crashed /\ cpc[t] = "nid_store"
    /\ requestID' = carg[t].reg + 1
    /\ carg' = [carg EXCEPT ![t].id = <<carg[t].kind, requestID'>>]
    /\ issued' = Append(issued, <<carg[t].kind, requestID'>>)
    /\ Goto(t, "send_lock")
    /\ UNCHANGED <<conn, mu, done, connected, crashed, readerVars, ret, writing,
                   queueVars, sent, closeLog, calls, lifeVars, auxVars>>

\* ... and writes it back incremented; the id is the prefix and the counter's
\* value; the deferred Unlock runs.
NextRequestIDStore(t) ==
    /\ ~crashed /\ cpc[t] = "nid_store"
    /\ requestID' = carg[t].reg + 1
    /\ carg' = [carg EXCEPT ![t].id = <<carg[t].kind, requestID'>>]
    /\ issued' = Append(issued, <<carg[t].kind, requestID'>>)
    /\ Unlock(t)
    /\ Goto(t, "send_lock")
    /\ UNCHANGED <<conn, done, connected, crashed, readerVars, ret, writing,
                   queueVars, sent, closeLog, calls, lifeVars, auxVars>>

\* ----------------------------------------------- sendPrivate, sendMarkets
\* Unsubscribe(requestID, isPrivate)
CallUnsubscribe(t, id, isPrivate) ==
    /\ ~crashed /\ cpc[t] = "idle" /\ calls < MaxCalls
    /\ Goto(t, "send_lock")
    /\ carg' = [carg EXCEPT ![t] =
          [NoArg EXCEPT !.op = "unsubscribe", !.id = id, !.priv = isPrivate]]
    /\ calls' = calls + 1
    /\ UNCHANGED <<clientVars, readerVars, ret, writing, queueVars, logVars,
                   lifeVars, auxVars>>

\* Mutant: Unsubscribe always sends on the markets socket.
TargetIgnoringPrivate(arg) ==
    IF arg.op = "subscribe" THEN SendSocket(arg.kind) ELSE "markets"

\* The socket a call sends on: the Subscribe* functions call sendPrivate or
\* sendMarkets, Unsubscribe chooses by isPrivate.
Target(arg) ==
    IF arg.op = "subscribe" THEN SendSocket(arg.kind)
    ELSE IF arg.priv THEN "private" ELSE "markets"

\* The request a call sends.
Request(arg) ==
    IF arg.op = "subscribe"
    THEN [type |-> "subscribe", request_id |-> arg.id,
          subscription_type |-> SubscriptionType(arg.kind)]
    ELSE [type |-> "unsubscribe", request_id |-> arg.id, subscription_type |-> 0]

\* Mutant: the send does not take the mutex.
SendNoLock(t) ==
    /\ ~crashed /\ cpc[t] = "send_lock"
    /\ Goto(t, "send_check")
    /\ UNCHANGED <<clientVars, readerVars, carg, ret, writing, queueVars,
                   logVars, calls, lifeVars, auxVars>>

\* c.mu.Lock()
SendLock(t) ==
    /\ ~crashed /\ cpc[t] = "send_lock"
    /\ Lock(t)
    /\ Goto(t, "send_check")
    /\ UNCHANGED <<conn, done, requestID, connected, crashed, readerVars, carg,
                   ret, writing, queueVars, logVars, calls, lifeVars, auxVars>>

\* Mutant: the send does not test the connection for nil.
SendCheckNoNilTest(t) ==
    /\ ~crashed /\ cpc[t] = "send_check"
    /\ writing' = [writing EXCEPT ![Target(carg[t])] = @ \cup {t}]
    /\ Goto(t, "send_write")
    /\ UNCHANGED <<clientVars, readerVars, carg, ret, queueVars, logVars, calls,
                   lifeVars, auxVars>>

\* Mutant: the not-connected return leaves the mutex locked.
SendCheckKeepsLock(t) ==
    /\ ~crashed /\ cpc[t] = "send_check"
    /\ IF conn[Target(carg[t])] = "nil"
       THEN /\ Return(t, [NoRet EXCEPT !.op = carg[t].op, !.err = "not_connected"])
            /\ UNCHANGED <<mu, writing>>
       ELSE /\ writing' = [writing EXCEPT ![Target(carg[t])] = @ \cup {t}]
            /\ Goto(t, "send_write")
            /\ UNCHANGED <<mu, carg, ret>>
    /\ UNCHANGED <<conn, done, requestID, connected, crashed, readerVars,
                   queueVars, logVars, calls, lifeVars, auxVars>>

\* if c.<s>Conn == nil { return error }; otherwise the request is marshalled
\* and WriteMessage is entered.
SendCheck(t) ==
    /\ ~crashed /\ cpc[t] = "send_check"
    /\ IF conn[Target(carg[t])] = "nil"
       THEN /\ Unlock(t)
            /\ Return(t, [NoRet EXCEPT !.op = carg[t].op, !.err = "not_connected"])
            /\ UNCHANGED writing
       ELSE /\ writing' = [writing EXCEPT ![Target(carg[t])] = @ \cup {t}]
            /\ Goto(t, "send_write")
            /\ UNCHANGED <<mu, carg, ret>>
    /\ UNCHANGED <<conn, done, requestID, connected, crashed, readerVars,
                   queueVars, logVars, calls, lifeVars, auxVars>>

\* What WriteMessage may do: succeed or fail on an open socket, fail on a
\* closed one.
WriteOutcomes(state) == IF state = "open" THEN BOOLEAN ELSE {FALSE}

\* WriteMessage returns and with it the send and the call: a subscribe
\* returns its id when the write succeeded, "" and the error otherwise.
SendWrite(t) ==
    /\ ~crashed /\ cpc[t] = "send_write"
    /\ \E ok \in WriteOutcomes(conn[Target(carg[t])]) :
        /\ sent' = IF ok
                   THEN [sent EXCEPT ![Target(carg[t])] = Append(@, Request(carg[t]))]
                   ELSE sent
        /\ Return(t, [NoRet EXCEPT !.op = carg[t].op,
                                   !.err = IF ok THEN "none" ELSE "write",
                                   !.id = IF ok /\ carg[t].op = "subscribe"
                                          THEN carg[t].id ELSE NoRet.id])
    /\ writing' = [writing EXCEPT ![Target(carg[t])] = @ \ {t}]
    /\ Unlock(t)
    /\ UNCHANGED <<conn, done, requestID, connected, crashed, readerVars,
                   queueVars, issued, closeLog, calls, lifeVars, auxVars>>

\* ----------------------------------------------------------- IsConnected
CallIsConnected(t) ==
    /\ ~crashed /\ cpc[t] = "idle" /\ calls < MaxCalls
    /\ Goto(t, "isconnected")
    /\ carg' = [carg EXCEPT ![t] = [NoArg EXCEPT !.op = "isconnected"]]
    /\ calls' = calls + 1
    /\ UNCHANGED <<clientVars, readerVars, ret, writing, queueVars, logVars,
                   lifeVars, auxVars>>

\* Mutant: IsConnected reads the flag without taking the mutex.
IsConnectedNoLock(t) ==
    /\ ~crashed /\ cpc[t] = "isconnected"
    /\ Return(t, [NoRet EXCEPT !.op = "isconnected", !.val = connected])
    /\ UNCHANGED <<clientVars, readerVars, writing, queueVars, logVars, calls,
                   lifeVars, auxVars>>

\* c.mu.Lock(); defer c.mu.Unlock(); return c.connected
IsConnected(t) ==
    /\ ~crashed /\ cpc[t] = "isconnected"
    /\ mu = NoOne
    /\ Return(t, [NoRet EXCEPT !.op = "isconnected", !.val = connected])
    /\ UNCHANGED <<clientVars, readerVars, writing, queueVars, logVars, calls,
                   lifeVars, auxVars>>

\* -------------------------------------------------------- specification
Ctl == "t1"

Next ==
    \/ CallConnect(Ctl) \/ ConnectLock(Ctl) \/ DialPrivate(Ctl) \/ DialMarkets(Ctl)
    \/ CallClose(Ctl) \/ CloseSignal(Ctl) \/ ClosePrivate(Ctl) \/ CloseMarkets(Ctl)
    \/ \E s \in Socks : ReaderSelect(s)
    \/ \E s \in Socks : ReadFrame(s)
    \/ \E s \in Socks : ReadError(s)
    \/ \E s \in Socks : ReadClosed(s)
    \/ \E s \in Socks : ReaderHandle(s)
    \/ Receive

Spec == Init /\ [][Next]_vars

\* The ids a caller may pass to Unsubscribe: one a subscribe returned, or one
\* the session never issued.
UnknownID == <<"unknown", 0>>
KnownIDs == {ret[t].id : t \in Threads} \ {NoRet.id}

NextCalls ==
    \E t \in Threads :
        \/ CallConnect(t) \/ ConnectLock(t) \/ DialPrivate(t) \/ DialMarkets(t)
        \/ CallClose(t) \/ CloseSignal(t) \/ ClosePrivate(t) \/ CloseMarkets(t)
        \/ \E kind \in Kinds : CallSubscribe(t, kind)
        \/ NextRequestIDLock(t) \/ NextRequestIDLoad(t) \/ NextRequestIDStore(t)
        \/ \E id \in KnownIDs \cup {UnknownID}, p \in BOOLEAN : CallUnsubscribe(t, id, p)
        \/ SendLock(t) \/ SendCheck(t) \/ SendWrite(t)
        \/ CallIsConnected(t) \/ IsConnected(t)

SpecCalls == Init /\ [][NextCalls]_vars

\* A session whose callers do not keep to the life cycle: Connect and Close
\* have no guard of their own in the code, so any thread may call either at
\* any time, on a connected or a closed session too.  rpc follows the readers
\* the last successful Connect started; spawned counts all that were started
\* and live the connections dialled and not closed, whether or not the
\* session still points at them.
CallConnectAny(t) ==
    /\ ~crashed /\ cpc[t] = "idle" /\ spawned < 2 * MaxConnects
    /\ Goto(t, "connect_lock")
    /\ carg' = [carg EXCEPT ![t] = [NoArg EXCEPT !.op = "connect"]]
    /\ UNCHANGED <<clientVars, readerVars, ret, writing, queueVars, logVars, calls,
                   lifeVars, auxVars>>

CallCloseAny(t) ==
    /\ ~crashed /\ cpc[t] = "idle"
    /\ Goto(t, "close_lock")
    /\ carg' = [carg EXCEPT ![t] = [NoArg EXCEPT !.op = "close"]]
    /\ UNCHANGED <<clientVars, readerVars, ret, writing, queueVars, logVars, calls,
                   lifeVars, auxVars>>

NextReuse ==
    \E t \in Threads :
        \/ CallConnectAny(t) \/ ConnectLock(t) \/ DialPrivate(t) \/ DialMarkets(t)
        \/ CallCloseAny(t) \/ CloseSignal(t) \/ ClosePrivate(t) \/ CloseMarkets(t)
        \/ CallIsConnected(t) \/ IsConnected(t)

SpecReuse == Init /\ [][NextReuse]_vars

\* The channel at the capacity the code gives it: the session is connected,
\* nobody receives, and one socket delivers data frames, one more than the
\* channel holds.
FloodSock == "markets"

ReadDataFrame(s) ==
    /\ ~crashed /\ rpc[s] = "read" /\ conn[s] = "open"
    /\ Len(wire) < ChanCap + 1
    /\ wire' = Append(wire, [sock |-> s, frame |-> Json({"marketData"})])
    /\ rframe' = [rframe EXCEPT ![s] =
                    [frame |-> Json({"marketData"}), seq |-> Len(wire')]]
    /\ rpc' = [rpc EXCEPT ![s] = "handle"]
    /\ UNCHANGED <<clientVars, callerVars, messages, dropped, delivered,
                   logVars, calls, lifeVars, auxVars>>

\* ReaderHandle on the channel of capacity ChanCap.
ReaderHandleFull(s) ==
    /\ ~crashed /\ rpc[s] = "handle"
    /\ IF Forwarded(rframe[s].frame)
       THEN /\ messages' = TrySendCap(messages, Message(s), ChanCap)
            /\ dropped' = IF messages' = messages
                          THEN dropped \cup {rframe[s].seq} ELSE dropped
       ELSE UNCHANGED <<messages, dropped>>
    /\ rpc' = [rpc EXCEPT ![s] = "select"]
    /\ rframe' = [rframe EXCEPT ![s] = NoFrame]
    /\ UNCHANGED <<clientVars, callerVars, wire, delivered, logVars, calls,
                   lifeVars, auxVars>>

NextFull ==
    \/ CallConnect(Ctl) \/ ConnectLock(Ctl) \/ DialPrivate(Ctl) \/ DialMarkets(Ctl)
    \/ \E s \in Socks : ReaderSelect(s)
    \/ ReadDataFrame(FloodSock)
    \/ ReaderHandleFull(FloodSock)

SpecFull == Init /\ [][NextFull]_vars

\* The frames a peer may send, by the payload keys of WSMessage they carry:
\* one, none, several, an error text, a heartbeat, or no JSON at all.
PayloadVariants ==
    {"orderSubscriptionSnapshot", "orderSubscriptionUpdate", "positionSubscription",
     "accountBalancesSnapshot", "accountBalancesUpdate", "marketData",
     "marketDataLite", "trade", "error"}
VariantChoices ==
    { Malformed, Json({}), Json({"heartbeat"}), Json({"marketData"}),
      Json({"error"}), Json({"marketData", "trade"}) }

\* ReadMessage returns a frame of VariantChoices.
ReadVariantFrame(s) ==
    /\ ~crashed /\ rpc[s] = "read" /\ conn[s] = "open"
    /\ Len(wire) < MaxFrames
    /\ \E f \in VariantChoices :
        /\ wire' = Append(wire, [sock |-> s, frame |-> f])
        /\ rframe' = [rframe EXCEPT ![s] = [frame |-> f, seq |-> Len(wire')]]
    /\ rpc' = [rpc EXCEPT ![s] = "handle"]
    /\ UNCHANGED <<clientVars, callerVars, messages, dropped, delivered,
                   logVars, calls, lifeVars, auxVars>>

NextVariants ==
    \/ CallConnect(Ctl) \/ ConnectLock(Ctl) \/ DialPrivate(Ctl) \/ DialMarkets(Ctl)
    \/ \E s \in Socks : ReaderSelect(s) \/ ReadVariantFrame(s) \/ ReaderHandle(s)
    \/ Receive

SpecVariants == Init /\ [][NextVariants]_vars

\* The callers together with readers whose sockets deliver nothing but may
\* fail: Connect, Close, the subscribes and IsConnected of every thread, and
\* the readers' test of done, read error and read on a closed socket.  One
\* subscribe per socket stands for the three that share its send function.
LossKinds == {"order", "marketdata"}

NextReaderLoss ==
    \/ \E t \in Threads :
          \/ CallConnect(t) \/ ConnectLock(t) \/ DialPrivate(t) \/ DialMarkets(t)
          \/ CallClose(t) \/ CloseSignal(t) \/ ClosePrivate(t) \/ CloseMarkets(t)
          \/ \E kind \in LossKinds : CallSubscribe(t, kind)
          \/ NextRequestIDLock(t) \/ NextRequestIDLoad(t) \/ NextRequestIDStore(t)
          \/ SendLock(t) \/ SendCheck(t) \/ SendWrite(t)
          \/ CallIsConnected(t) \/ IsConnected(t)
    \/ \E s \in Socks : ReaderSelect(s) \/ ReadError(s) \/ ReadClosed(s)

SpecReaderLoss == Init /\ [][NextReaderLoss]_vars

\* What a thread does inside a call it has made.
ThreadStep(t) ==
    \/ ConnectLock(t) \/ DialPrivate(t) \/ DialMarkets(t)
    \/ CloseSignal(t) \/ ClosePrivate(t) \/ CloseMarkets(t)
    \/ NextRequestIDLock(t) \/ NextRequestIDLoad(t) \/ NextRequestIDStore(t)
    \/ SendLock(t) \/ SendCheck(t) \/ SendWrite(t)
    \/ IsConnected(t)

\* The callers and the readers as the Go runtime runs them: a goroutine that
\* can run does run, the transport calls (Dial, WriteMessage, Close) return,
\* and a goroutine waiting for the mutex gets it when it is released again
\* and again (sync.Mutex hands the lock to a starving waiter).
FairSpecReaderLoss == SpecReaderLoss /\ \A t \in Threads : SF_vars(ThreadStep(t))

\* The session with the scheduling the Go runtime gives: a goroutine that can
\* run does run, so Close goes on once called and a reader takes its own
\* steps.  Nothing obliges a peer to send a frame or to fail (ReadFrame,
\* ReadError are left out).
CloseStep == CloseSignal(Ctl) \/ ClosePrivate(Ctl) \/ CloseMarkets(Ctl)
ReaderStep(s) == ReaderSelect(s) \/ ReadClosed(s) \/ ReaderHandle(s)
Fairness == WF_vars(CloseStep) /\ \A s \in Socks : WF_vars(ReaderStep(s))

FairSpec == Spec /\ Fairness

\* ------------------------------------------------- the subscribe encoding
\* strconv / fmt's %d: the decimal digits of a number, and their text.
DigitChar(d) ==
    CASE d = 0 -> "0" [] d = 1 -> "1" [] d = 2 -> "2" [] d = 3 -> "3"
      [] d = 4 -> "4" [] d = 5 -> "5" [] d = 6 -> "6" [] d = 7 -> "7"
      [] d = 8 -> "8" [] d = 9 -> "9"

RECURSIVE Decimal(_)
Decimal(n) == IF n < 10 THEN <<n>> ELSE Append(Decimal(n \div 10), n % 10)

RECURSIVE FormatDigits(_)
FormatDigits(ds) ==
    IF ds = <<>> THEN "" ELSE DigitChar(Head(ds)) \o FormatDigits(Tail(ds))

FormatInt(n) == FormatDigits(Decimal(n))

\* fmt.Sprintf("%s-%d", prefix, c.requestID)
RequestIDText(prefix, n) == prefix \o "-" \o FormatInt(n)

\* A []string: nil, or a slice with its elements.
NilSlice == [nil |-> TRUE, elems |-> <<>>]
Slice(elems) == [nil |-> FALSE, elems |-> elems]

\* Mutant: every subscribe passes the debounce flag on.
SubscriptionDebounceAny(kind, id, slugs, debounced) ==
    [RequestID |-> id,
     SubscriptionType |-> SubscriptionType(kind),
     MarketSlugs |-> IF kind = "balance" THEN NilSlice ELSE slugs,
     ResponsesDebounced |-> debounced]

\* The models.WSSubscription each Subscribe* builds: SubscribeBalances sets
\* no MarketSlugs, only SubscribeMarketData sets ResponsesDebounced.
Subscription(kind, id, slugs, debounced) ==
    [RequestID |-> id,
     SubscriptionType |-> SubscriptionType(kind),
     MarketSlugs |-> IF kind = "balance" THEN NilSlice ELSE slugs,
     ResponsesDebounced |-> IF kind = "marketdata" THEN debounced ELSE FALSE]

\* Mutant: the keys of the other naming convention.
MarshalSubscriptionCamel(sub) ==
    [requestId |-> sub.RequestID, subscriptionType |-> sub.SubscriptionType]
        @@ (IF Len(sub.MarketSlugs.elems) > 0
            THEN [marketSlugs |-> sub.MarketSlugs.elems] ELSE <<>>)
        @@ (IF sub.ResponsesDebounced
            THEN [responsesDebounced |-> TRUE] ELSE <<>>)

\* json.Marshal of a WSSubscription, as the object's keys and values:
\* request_id and subscription_type always, market_slugs and
\* responses_debounced under omitempty (left out when empty or nil, when
\* false).
MarshalSubscription(sub) ==
    [request_id |-> sub.RequestID, subscription_type |-> sub.SubscriptionType]
        @@ (IF Len(sub.MarketSlugs.elems) > 0
            THEN [market_slugs |-> sub.MarketSlugs.elems] ELSE <<>>)
        @@ (IF sub.ResponsesDebounced
            THEN [responses_debounced |-> TRUE] ELSE <<>>)

\* json.Unmarshal of such an object into a WSSubscription: a key that is
\* absent leaves the field at its zero value.
UnmarshalSubscription(obj) ==
    [RequestID |-> IF "request_id" \in DOMAIN obj THEN obj.request_id ELSE "",
     SubscriptionType |->
        IF "subscription_type" \in DOMAIN obj THEN obj.subscription_type ELSE 0,
     MarketSlugs |->
        IF "market_slugs" \in DOMAIN obj THEN Slice(obj.market_slugs) ELSE NilSlice,
     ResponsesDebounced |->
        IF "responses_debounced" \in DOMAIN obj THEN obj.responses_debounced
        ELSE FALSE]

\* The arguments the subscribe operations are called with.
SlugChoices == {NilSlice, Slice(<<>>), Slice(<<"m1">>), Slice(<<"m1", "m2">>)}
CounterChoices == {1, 12}

InitEncode ==
    /\ InitSession
    /\ sig = NoSig /\ rest = NoRest /\ demo = NoDemo
    /\ \E kind \in Kinds, slugs \in SlugChoices, debounced \in BOOLEAN,
          n \in CounterChoices :
          enc = [stage |-> "called", kind |-> kind, slugs |-> slugs,
                 debounced |-> debounced, id |-> RequestIDText(kind, n)]

\* Subscribe*: msg := &models.WSSubscribeRequest{Subscribe: &models.WSSubscription{...}}
EncBuild ==
    /\ enc.stage = "called"
    /\ enc' = [stage |-> "built", kind |-> enc.kind, slugs |-> enc.slugs,
               debounced |-> enc.debounced, id |-> enc.id,
               msg |-> [Subscribe |->
                          Subscription(enc.kind, enc.id, enc.slugs, enc.debounced)]]
    /\ UNCHANGED <<clientVars, readerVars, callerVars, queueVars, logVars, calls,
                   lifeVars, sig, rest, demo>>

\* sendPrivate / sendMarkets: data, err := json.Marshal(msg)
EncMarshal ==
    /\ enc.stage = "built"
    /\ enc' = [stage |-> "marshalled", kind |-> enc.kind, slugs |-> enc.slugs,
               debounced |-> enc.debounced, id |-> enc.id, msg |-> enc.msg,
               frame |-> [subscribe |-> MarshalSubscription(enc.msg.Subscribe)]]
    /\ UNCHANGED <<clientVars, readerVars, callerVars, queueVars, logVars, calls,
                   lifeVars, sig, rest, demo>>

\* The frame is decoded again into a WSSubscribeRequest.
EncDecode ==
    /\ enc.stage = "marshalled"
    /\ enc' = [stage |-> "decoded", kind |-> enc.kind, slugs |-> enc.slugs,
               debounced |-> enc.debounced, id |-> enc.id, msg |-> enc.msg,
               frame |-> enc.frame,
               back |-> [Subscribe |-> UnmarshalSubscription(enc.frame.subscribe)]]
    /\ UNCHANGED <<clientVars, readerVars, callerVars, queueVars, logVars, calls,
                   lifeVars, sig, rest, demo>>

NextEncode == EncBuild \/ EncMarshal \/ EncDecode

SpecEncode == InitEncode /\ [][NextEncode]_vars

\* ------------------------------------------------------------ the signer
\* Text as the pieces it is put together from.
RECURSIVE Join(_)
Join(tokens) == IF tokens = <<>> THEN "" ELSE Head(tokens) \o Join(Tail(tokens))

\* Where the query starts in a request target: the place of its first "?",
\* or past its end.
QueryAt(target) ==
    IF \E i \in 1..Len(target) : target[i] = "?"
    THEN CHOOSE i \in 1..Len(target) :
            target[i] = "?" /\ \A j \in 1..(i - 1) : target[j] # "?"
    ELSE Len(target) + 1

\* http.NewRequest(method, c.config.BaseURL + path, ...): the URL is parsed,
\* Path is what stands before the "?", RawQuery what follows it.
ParseURL(base, target) ==
    [Host |-> base.Host,
     Path |-> base.Path \o Join(SubSeq(target, 1, QueryAt(target) - 1)),
     RawQuery |-> Join(SubSeq(target, QueryAt(target) + 1, Len(target)))]

\* Mutant: the signer takes the request URI, query included.
SignedPathWithQuery(url) ==
    IF url.RawQuery = "" THEN url.Path ELSE url.Path \o "?" \o url.RawQuery

\* path := req.URL.Path
SignedPath(url) == url.Path

\* message := timestamp + method + path
SignatureMessage(timestamp, method, path) == timestamp \o method \o path

\* ed25519.Sign and base64.StdEncoding.EncodeToString: each value is
\* determined by, and determines, what went in.
Ed25519Sign(key, message) == <<"ed25519", key, message>>
Base64(bytes) == <<"base64", bytes>>

\* The three authentication headers.
AuthHeaders(cfg, timestamp, message) ==
    ("X-PM-Access-Key" :> <<cfg.APIKey>>)
        @@ ("X-PM-Timestamp" :> <<timestamp>>)
        @@ ("X-PM-Signature" :> Base64(Ed25519Sign(cfg.PrivateKey, message)))

\* GenerateWSHeaders(cfg) at clock reading now.
GenerateWSHeaders(cfg, now) ==
    AuthHeaders(cfg, FormatDigits(now),
                SignatureMessage(FormatDigits(now), "GET", "/v1/ws/private"))

\* Mutant: the markets handshake is signed over the private endpoint's path.
GenerateWSMarketsHeadersPrivatePath(cfg, now) ==
    AuthHeaders(cfg, FormatDigits(now),
                SignatureMessage(FormatDigits(now), "GET", "/v1/ws/private"))

\* GenerateWSMarketsHeaders(cfg) at clock reading now.
GenerateWSMarketsHeaders(cfg, now) ==
    AuthHeaders(cfg, FormatDigits(now),
                SignatureMessage(FormatDigits(now), "GET", "/v1/ws/markets"))

\* time.Now().UnixMilli(), in decimal digits.
NowChoices ==
    { <<1, 7, 0, 4, 0, 6, 7, 2, 0, 0, 0, 0, 0>>,
      <<1, 7, 0, 4, 0, 6, 7, 2, 0, 0, 0, 0, 1>> }

\* config.Config: the key pair, and the base URL with the path it may carry.
CfgChoices ==
    { [APIKey |-> "key-a", PrivateKey |-> "private-a",
       BaseURL |-> [Host |-> "https://api.polymarket.us", Path |-> ""]],
      [APIKey |-> "key-b", PrivateKey |-> "private-b",
       BaseURL |-> [Host |-> "https://staging.example", Path |-> "/api"]] }

\* The methods and paths the REST client passes to doRequest.
MethodChoices == {"GET", "POST"}
TargetChoices ==
    { <<"/v1/portfolio/positions">>,
      <<"/v1/portfolio/positions", "?", "limit=10">>,
      <<"/v1/markets", "?", "limit=5", "&", "active=true">>,
      <<"/v1/orders">> }

\* A request about to be signed, or a Connect about to generate its headers.
InitSign ==
    /\ InitSession
    /\ enc = NoEnc /\ rest = NoRest /\ demo = NoDemo
    /\ \E cfg \in CfgChoices :
          \/ \E method \in MethodChoices, target \in TargetChoices :
                sig = [stage |-> "called", op |-> "SignRequest", cfg |-> cfg,
                       target |-> target,
                       req |-> [Method |-> method,
                                URL |-> ParseURL(cfg.BaseURL, target)]]
          \/ sig = [stage |-> "called", op |-> "Connect", cfg |-> cfg]

\* timestamp := strconv.FormatInt(time.Now().UnixMilli(), 10)
SigTimestamp ==
    /\ sig.op = "SignRequest" /\ sig.stage = "called"
    /\ \E now \in NowChoices :
          sig' = [stage |-> "timestamp", op |-> sig.op, cfg |-> sig.cfg,
                  target |-> sig.target, req |-> sig.req,
                  timestamp |-> FormatDigits(now)]
    /\ UNCHANGED <<sessionVars, enc, rest, demo>>

\* method := req.Method; path := req.URL.Path; message := ...
SigMessage ==
    /\ sig.op = "SignRequest" /\ sig.stage = "timestamp"
    /\ sig' = [stage |-> "message", op |-> sig.op, cfg |-> sig.cfg,
               target |-> sig.target, req |-> sig.req,
               timestamp |-> sig.timestamp,
               message |-> SignatureMessage(sig.timestamp, sig.req.Method,
                                            SignedPath(sig.req.URL))]
    /\ UNCHANGED <<sessionVars, enc, rest, demo>>

\* The message is signed and the three headers are set.
SigHeaders ==
    /\ sig.op = "SignRequest" /\ sig.stage = "message"
    /\ sig' = [stage |-> "signed", op |-> sig.op, cfg |-> sig.cfg,
               target |-> sig.target, req |-> sig.req,
               timestamp |-> sig.timestamp, message |-> sig.message,
               headers |-> AuthHeaders(sig.cfg, sig.timestamp, sig.message)]
    /\ UNCHANGED <<sessionVars, enc, rest, demo>>

\* Connect: privateHeaders := auth.GenerateWSHeaders(c.config)
GenPrivateHeaders ==
    /\ sig.op = "Connect" /\ sig.stage = "called"
    /\ \E now \in NowChoices :
          sig' = [stage |-> "private", op |-> sig.op, cfg |-> sig.cfg,
                  privateNow |-> now,
                  privateHeaders |-> GenerateWSHeaders(sig.cfg, now)]
    /\ UNCHANGED <<sessionVars, enc, rest, demo>>

\* Connect: marketsHeaders := auth.GenerateWSMarketsHeaders(c.config)
GenMarketsHeaders ==
    /\ sig.op = "Connect" /\ sig.stage = "private"
    /\ \E now \in NowChoices :
          sig' = [stage |-> "markets", op |-> sig.op, cfg |-> sig.cfg,
                  privateNow |-> sig.privateNow,
                  privateHeaders |-> sig.privateHeaders,
                  marketsNow |-> now,
                  marketsHeaders |-> GenerateWSMarketsHeaders(sig.cfg, now)]
    /\ UNCHANGED <<sessionVars, enc, rest, demo>>

NextSign ==
    \/ SigTimestamp \/ SigMessage \/ SigHeaders
    \/ GenPrivateHeaders \/ GenMarketsHeaders

SpecSign == InitSign /\ [][NextSign]_vars

\* ------------------------------------------------------ ValidateTimestamp
\* int64 in two's complement: four limbs of 16 bits, the lowest first.  Go's
\* integer arithmetic wraps round.
Limb == 65536
Zero64 == <<0, 0, 0, 0>>
MinInt64 == <<0, 0, 0, 32768>>

\* a - b
Sub64(a, b) ==
    LET d1 == a[1] - b[1]
        b1 == IF d1 < 0 THEN 1 ELSE 0
        d2 == a[2] - b[2] - b1
        b2 == IF d2 < 0 THEN 1 ELSE 0
        d3 == a[3] - b[3] - b2
        b3 == IF d3 < 0 THEN 1 ELSE 0
        d4 == a[4] - b[4] - b3
        b4 == IF d4 < 0 THEN 1 ELSE 0
    IN <<d1 + b1 * Limb, d2 + b2 * Limb, d3 + b3 * Limb, d4 + b4 * Limb>>

\* -a
Neg64(a) == Sub64(Zero64, a)

\* a < 0
IsNeg64(a) == a[4] >= 32768

\* a > b, signed
Gt64(a, b) ==
    IF IsNeg64(a) # IsNeg64(b) THEN IsNeg64(b)
    ELSE \E i \in 1..4 : a[i] > b[i] /\ \A j \in (i + 1)..4 : a[j] = b[j]

\* The int64 of a number that fits in 31 bits.
Int64(n) ==
    IF n >= 0 THEN <<n % Limb, n \div Limb, 0, 0>>
    ELSE Neg64(<<(0 - n) % Limb, (0 - n) \div Limb, 0, 0>>)

\* a * 10 + d
MulAdd10(a, d) ==
    LET c1 == a[1] * 10 + d
        c2 == a[2] * 10 + c1 \div Limb
        c3 == a[3] * 10 + c2 \div Limb
        c4 == a[4] * 10 + c3 \div Limb
    IN <<c1 % Limb, c2 % Limb, c3 % Limb, c4 % Limb>>

\* The int64 whose decimal digits are given.
RECURSIVE FromDigits(_)
FromDigits(ds) ==
    IF ds = <<>> THEN Zero64
    ELSE MulAdd10(FromDigits(SubSeq(ds, 1, Len(ds) - 1)), ds[Len(ds)])

\* maxDiff := int64(5 * 60 * 1000)
MaxDiff == Int64(5 * 60 * 1000)

\* diff > maxDiff
TooFar(diff) == Gt64(diff, MaxDiff)

\* The timestamps handed to ValidateTimestamp, by how far before the clock
\* they are (negative: after it), in ms ...
NearOffsets ==
    {0, 1, 299999, 300000, 300001, 600000, 2000000000} \cup
    {0 - 1, 0 - 299999, 0 - 300000, 0 - 300001, 0 - 600000, 0 - 2000000000}

\* ... and those further away than 31 bits can tell: the epoch, the ends of
\* int64, and the clock less 2^63.
FarTimestamps(now) ==
    {Zero64, MinInt64, <<65535, 65535, 65535, 32767>>, Sub64(now, MinInt64)}

\* ValidateTimestamp(timestampMs) is called; real is the distance between
\* timestamp and clock when it is known as a number.
InitValidate ==
    /\ InitSession
    /\ enc = NoEnc /\ rest = NoRest /\ demo = NoDemo
    /\ \E digits \in NowChoices :
          LET now == FromDigits(digits)
          IN \/ \E d \in NearOffsets :
                   sig = [stage |-> "called", now |-> now,
                          timestampMs |-> Sub64(now, Int64(d)),
                          near |-> TRUE, real |-> d, diff |-> Zero64, err |-> FALSE]
             \/ \E ts \in FarTimestamps(now) :
                   sig = [stage |-> "called", now |-> now, timestampMs |-> ts,
                          near |-> FALSE, real |-> 0, diff |-> Zero64, err |-> FALSE]

\* diff := now - timestampMs
ValDiff ==
    /\ sig.stage = "called"
    /\ sig' = [sig EXCEPT !.stage = "diff", !.diff = Sub64(sig.now, sig.timestampMs)]
    /\ UNCHANGED <<sessionVars, enc, rest, demo>>

\* if diff < 0 { diff = -diff }
ValAbs ==
    /\ sig.stage = "diff"
    /\ sig' = [sig EXCEPT !.stage = "abs",
                          !.diff = IF IsNeg64(sig.diff) THEN Neg64(sig.diff) ELSE @]
    /\ UNCHANGED <<sessionVars, enc, rest, demo>>

\* if diff > maxDiff { return error }; return nil
ValReturn ==
    /\ sig.stage = "abs"
    /\ sig' = [sig EXCEPT !.stage = "returned", !.err = TooFar(sig.diff)]
    /\ UNCHANGED <<sessionVars, enc, rest, demo>>

NextValidate == ValDiff \/ ValAbs \/ ValReturn

SpecValidate == InitValidate /\ [][NextValidate]_vars

\* ----------------------------------------------------- RestClient.doRequest
\* What the server may answer, and what may go wrong on the way.
StatusChoices == {199, 200, 204, 299, 300, 404, 500}
BodyChoices == {"{}", "not json"}
RequestBodies == {"nil", "order"}

\* json.Unmarshal(respBody, &result) in the callers of doRequest.
ValidJSON(text) == text = "{}"

\* Mutant: only the client and server error classes count as errors.
StatusIsErrorFrom400(code) == code >= 400

\* resp.StatusCode < 200 || resp.StatusCode >= 300
StatusIsError(code) == code < 200 \/ code >= 300

\* fmt.Errorf("API error %d: %s", resp.StatusCode, string(respBody))
APIError(code, body) == "API error " \o FormatInt(code) \o ": " \o body

NoRequest == [Method |-> "", URL |-> [Host |-> "", Path |-> "", RawQuery |-> ""],
              Header |-> <<>>]
NoResponse == [StatusCode |-> 0, Body |-> ""]

\* A REST operation has called doRequest(method, path, body).
InitRest ==
    /\ InitSession
    /\ enc = NoEnc /\ sig = NoSig /\ demo = NoDemo
    /\ \E cfg \in CfgChoices, method \in MethodChoices, target \in TargetChoices,
          body \in RequestBodies :
          rest = [pc |-> "build", cfg |-> cfg, method |-> method,
                  target |-> target, body |-> body, req |-> NoRequest,
                  dispatched |-> <<>>, resp |-> NoResponse,
                  ret |-> [body |-> "", err |-> ""], result |-> ""]

RestReturn(body, err) ==
    rest' = [rest EXCEPT !.pc = "returned", !.ret = [body |-> body, err |-> err]]

\* The body is marshalled, the request is created, and Content-Type is set
\* when there is a body; either of the first two may fail.
RestBuild ==
    /\ rest.pc = "build"
    /\ \/ rest.body # "nil" /\ RestReturn("", "failed to marshal request body")
       \/ RestReturn("", "failed to create request")
       \/ rest' = [rest EXCEPT
                     !.pc = "sign",
                     !.req = [Method |-> rest.method,
                              URL |-> ParseURL(rest.cfg.BaseURL, rest.target),
                              Header |-> IF rest.body # "nil"
                                         THEN ("Content-Type" :> <<"application/json">>)
                                         ELSE <<>>]]
    /\ UNCHANGED <<sessionVars, enc, sig, demo>>

\* auth.SignRequest(req, c.config): the three headers are set on the request;
\* SignRequest returns nil always.
RestSign ==
    /\ rest.pc = "sign"
    /\ \E now \in NowChoices :
          rest' = [rest EXCEPT
                     !.pc = "do",
                     !.req.Header =
                        AuthHeaders(rest.cfg, FormatDigits(now),
                            SignatureMessage(FormatDigits(now), rest.req.Method,
                                             SignedPath(rest.req.URL)))
                        @@ rest.req.Header]
    /\ UNCHANGED <<sessionVars, enc, sig, demo>>

\* c.httpClient.Do(req): the request reaches the transport; the transport
\* fails, or a response comes back.
RestDo ==
    /\ rest.pc = "do"
    /\ \/ rest' = [rest EXCEPT !.pc = "returned",
                                !.dispatched = Append(@, rest.req),
                                !.ret = [body |-> "", err |-> "request failed"]]
       \/ \E code \in StatusChoices, body \in BodyChoices :
             rest' = [rest EXCEPT !.pc = "read",
                                  !.dispatched = Append(@, rest.req),
                                  !.resp = [StatusCode |-> code, Body |-> body]]
    /\ UNCHANGED <<sessionVars, enc, sig, demo>>

\* io.ReadAll(resp.Body), then the status check and the return.
RestRead ==
    /\ rest.pc = "read"
    /\ \/ RestReturn("", "failed to read response")
       \/ IF StatusIsError(rest.resp.StatusCode)
          THEN RestReturn("", APIError(rest.resp.StatusCode, rest.resp.Body))
          ELSE RestReturn(rest.resp.Body, "")
    /\ UNCHANGED <<sessionVars, enc, sig, demo>>

\* The caller: if err != nil { return nil, err }; otherwise the body is
\* decoded into the result.
RestDecode ==
    /\ rest.pc = "returned"
    /\ rest' = [rest EXCEPT
                  !.pc = "done",
                  !.result = IF rest.ret.err # "" THEN "nil"
                             ELSE IF ValidJSON(rest.ret.body) THEN "decoded"
                             ELSE "nil"]
    /\ UNCHANGED <<sessionVars, enc, sig, demo>>

NextRest == RestBuild \/ RestSign \/ RestDo \/ RestRead \/ RestDecode

SpecRest == InitRest /\ [][NextRest]_vars

\* ------------------------------------------------------------ demo (main)
\* The operations of main in program order; each returns a value or an error.
DemoSteps ==
    <<"GetMarkets", "GetMarketBySlug", "GetBalances", "GetPositions",
      "Connect",
      "SubscribeOrders", "SubscribePositions", "SubscribeBalances",
      "SubscribeMarketData", "SubscribeTrades",
      "CreateOrder",
      "GetOrder", "GetOpenOrders", "CancelOrder",
      "GetBalancesFinal", "GetActivities",
      "cleanup">>
Operations == ({DemoSteps[i] : i \in 1..Len(DemoSteps)} \ {"cleanup"}) \cup {"Close"}

Following(op) == DemoSteps[(CHOOSE i \in 1..Len(DemoSteps) : DemoSteps[i] = op) + 1]

\* Mutant: a failed operation ends the process, as a failed config.Load does.
AfterFailureFatal(op) == "fatal"

\* Where main goes after the operation returned an error: past the else
\* branch that depends on its result.
AfterFailure(op) ==
    CASE op = "Connect" -> "CreateOrder"
      [] op = "CreateOrder" -> "GetBalancesFinal"
      [] op = "Close" -> "done"
      [] OTHER -> Following(op)

\* Where main goes after the operation succeeded.
AfterSuccess(op) == IF op = "Close" THEN "done" ELSE Following(op)

InitDemo ==
    /\ InitSession
    /\ enc = NoEnc /\ sig = NoSig /\ rest = NoRest
    /\ demo = [pc |-> "load", ctx |-> "live", handler |-> "none",
               isConnected |-> FALSE, failed |-> "", log |-> <<"info", "load">>]

\* config.Load(): log.Fatalf on error.
DemoLoad ==
    /\ demo.pc = "load"
    /\ \/ demo' = [demo EXCEPT !.pc = "fatal", !.log = <<"fatal", "load">>]
       \/ demo' = [demo EXCEPT !.pc = DemoSteps[1]]
    /\ UNCHANGED <<sessionVars, enc, sig, rest>>

\* One operation of main: it fails and a warning is logged, or it succeeds;
\* a successful Connect starts the message handler.  failed is the operation
\* that returned an error most recently, log the last line written.
DemoOperation ==
    /\ demo.pc \in Operations
    /\ \/ demo' = [demo EXCEPT !.pc = AfterFailure(demo.pc),
                                !.failed = demo.pc,
                                !.log = <<"warning", demo.pc>>,
                                !.isConnected = IF demo.pc = "Close" THEN FALSE ELSE @]
       \/ demo' = [demo EXCEPT !.pc = AfterSuccess(demo.pc),
                                !.log = <<"info", demo.pc>>,
                                !.isConnected = IF demo.pc = "Connect" THEN TRUE
                                                ELSE IF demo.pc = "Close" THEN FALSE
                                                ELSE @,
                                !.handler = IF demo.pc = "Connect" THEN "running" ELSE @]
    /\ UNCHANGED <<sessionVars, enc, sig, rest>>

\* Step 19: Close is called when IsConnected() is true.
DemoCleanup ==
    /\ demo.pc = "cleanup"
    /\ demo' = [demo EXCEPT !.pc = IF demo.isConnected THEN "Close" ELSE "done"]
    /\ UNCHANGED <<sessionVars, enc, sig, rest>>

\* main returns: the deferred cancel() runs.
DemoReturn ==
    /\ demo.pc = "done"
    /\ demo' = [demo EXCEPT !.pc = "exited", !.ctx = "cancelled"]
    /\ UNCHANGED <<sessionVars, enc, sig, rest>>

\* SIGINT or SIGTERM: the signal goroutine cancels the context, nothing else.
DemoSignal ==
    /\ demo.pc \notin {"fatal", "exited"}
    /\ demo.ctx = "live"
    /\ demo' = [demo EXCEPT !.ctx = "cancelled"]
    /\ UNCHANGED <<sessionVars, enc, sig, rest>>

\* handleWSMessages leaves its loop on ctx.Done().
DemoHandlerExit ==
    /\ demo.handler = "running"
    /\ demo.ctx = "cancelled"
    /\ demo.pc \notin {"fatal", "exited"}
    /\ demo' = [demo EXCEPT !.handler = "stopped"]
    /\ UNCHANGED <<sessionVars, enc, sig, rest>>

MainStep == DemoLoad \/ DemoOperation \/ DemoCleanup \/ DemoReturn

NextDemo == MainStep \/ DemoSignal \/ DemoHandlerExit

SpecDemo == InitDemo /\ [][NextDemo]_vars

\* The main goroutine is scheduled and every operation it calls returns.
FairSpecDemo == SpecDemo /\ WF_vars(MainStep)

\* ------------------------------------------------------------- helpers
Range(seq) == {seq[i] : i \in 1..Len(seq)}
PrivateKinds == {"order", "position", "balance"}
MarketsKinds == {"marketdata", "marketdatalite", "trade"}
\* The arrivals a reader still holds.
InHand == {rframe[s].seq : s \in {x \in Socks : rpc[x] = "handle"}}
\* Everything that has been put in the channel, oldest first.
Enqueued == delivered \o messages
Copies(seq, n) == Cardinality({i \in 1..Len(seq) : seq[i].seq = n})

\* ---------------------------------------------------------------- claims
\* C1: the channel never holds a heartbeat: no message that was enqueued,
\* delivered or not, has its heartbeat field set.
C1_NoHeartbeatQueued ==
    \A i \in 1..Len(Enqueued) : "heartbeat" \notin Enqueued[i].fields

\* A frame with the heartbeat key arrived beside other keys, was handled, and
\* other traffic from the same run sits in the channel.
C1_Witness ==
    /\ \E n \in 1..Len(wire) :
          /\ {"heartbeat", "marketData"} \subseteq wire[n].frame.keys
          /\ n \notin InHand
    /\ messages # <<>>

\* C2: the channel never holds more than its capacity, a reader holding a
\* frame can always take its step (the send cannot block), and a send on a
\* full channel leaves the channel as it was and the reader back at its loop.
C2_BoundedNonBlocking ==
    /\ [](Len(messages) <= QueueCap)
    /\ [](\A s \in Socks : rpc[s] = "handle" => ENABLED ReaderHandle(s))
    /\ [][\A s \in Socks :
            (rpc[s] = "handle" /\ rpc'[s] # "handle" /\ Len(messages) = QueueCap)
                => (messages' = messages /\ rpc'[s] = "select")]_vars

\* A message was dropped and the channel is full.
C2_Witness == dropped # {} /\ Len(messages) = QueueCap

\* C3: the messages of one socket are delivered in the order their frames
\* arrived on it, each carrying what its frame decoded to.
C3_PerSocketFIFO ==
    /\ \A i, j \in 1..Len(delivered) :
          (i < j /\ delivered[i].sock = delivered[j].sock)
              => delivered[i].seq < delivered[j].seq
    /\ \A i \in 1..Len(delivered) :
          /\ delivered[i].seq \in 1..Len(wire)
          /\ wire[delivered[i].seq].sock = delivered[i].sock
          /\ wire[delivered[i].seq].frame.keys = delivered[i].fields

\* Two messages of one socket were delivered, and a message of the other
\* socket that arrived after one of them was delivered before it.
C3_Witness ==
    \E i, j, k \in 1..Len(delivered) :
        /\ i < j /\ delivered[i].sock = delivered[j].sock
        /\ k < j /\ delivered[k].sock # delivered[j].sock
        /\ delivered[k].seq > delivered[j].seq

\* C4: every arrival that decoded and is no heartbeat is in the channel or
\* delivered exactly once, or was dropped and is there not at all; nothing
\* else is ever there; no message is delivered twice; and a drop happens only
\* when the channel is full.
C4_ExactlyOnce ==
    /\ [](\A n \in 1..Len(wire) :
            LET f == wire[n].frame
                pushed == f.ok /\ "heartbeat" \notin f.keys /\ n \notin InHand
            IN /\ Copies(Enqueued, n) =
                    (IF pushed /\ n \notin dropped THEN 1 ELSE 0)
               /\ n \in dropped => pushed)
    /\ [](\A i \in 1..Len(Enqueued) : Enqueued[i].seq \in 1..Len(wire))
    /\ [][dropped' # dropped => Len(messages) = QueueCap]_vars
    /\ [][delivered' # delivered =>
            /\ delivered' = Append(delivered, Head(messages))
            /\ messages' = Tail(messages)]_vars

\* Messages were delivered, one is waiting and one was dropped.
C4_Witness == Len(delivered) >= 1 /\ Len(messages) >= 1 /\ dropped # {}

\* C5: a subscribe of kind order, position or balance is written to the
\* private socket only, one of kind marketdata, marketdatalite or trade to the
\* markets socket only: so for the frames written and for the writes under way.
C5_SubscribeRouting ==
    /\ \A s \in Socks : \A f \in Range(sent[s]) :
          f.type = "subscribe" =>
              /\ f.request_id[1] \in PrivateKinds => s = "private"
              /\ f.request_id[1] \in MarketsKinds => s = "markets"
    /\ \A s \in Socks : \A t \in writing[s] :
          carg[t].op = "subscribe" =>
              /\ carg[t].kind \in PrivateKinds => s = "private"
              /\ carg[t].kind \in MarketsKinds => s = "markets"

\* Subscribes of both families were written, each on its socket.
C5_Witness ==
    /\ \E f \in Range(sent["private"]) : f.type = "subscribe"
    /\ \E f \in Range(sent["markets"]) : f.type = "subscribe"

\* C6: the ids nextRequestID returns are pairwise distinct, and so are the
\* counter values they carry, whatever the kinds and however the calls overlap.
C6_DistinctRequestIDs ==
    \A i, j \in 1..Len(issued) :
        i # j => (issued[i] # issued[j] /\ issued[i][2] # issued[j][2])

\* Two subscribes of the same kind by two threads are under way at once, both
\* with their ids allocated.
C6_Witness ==
    \E a, b \in Threads :
        /\ a # b
        /\ carg[a].op = "subscribe" /\ carg[b].op = "subscribe"
        /\ carg[a].kind = carg[b].kind
        /\ carg[a].id[2] > 0 /\ carg[b].id[2] > 0

\* C7: once Close is called on a connected session both readers return, also
\* a reader blocked in ReadMessage on a socket that delivers nothing more, and
\* also when a socket's Close returns an error.
C7_CloseStopsReaders ==
    (\E t \in Threads : cpc[t] = "close_lock" /\ connected)
        ~> (\A s \in Socks : rpc[s] = "exit")

\* Close has returned an error, and a reader is still blocked in ReadMessage
\* on its closed socket.
C7_Witness ==
    /\ \E t \in Threads : ret[t].op = "close" /\ ret[t].err = "close"
    /\ \E s \in Socks : rpc[s] = "read" /\ conn[s] = "closed" /\ closeLog[s] = "failed"

\* C8: when Connect returns after the markets dial failed, it returns an
\* error, the private socket is closed, the session holds no open socket, it
\* is not connected, no reader was started and the mutex is free.
C8_FailedMarketsDialRollsBack ==
    [][\A t \in Threads :
          (cpc[t] = "dial_markets" /\ cpc'[t] = "idle" /\ conn'["markets"] # "open")
              => /\ ret'[t].op = "connect" /\ ret'[t].err # "none"
                 /\ conn'["private"] = "closed"
                 /\ \A s \in Socks : conn'[s] # "open" /\ rpc'[s] = "none"
                 /\ ~connected'
                 /\ mu' = NoOne]_vars

\* Connect has returned the markets dial's error.
C8_Witness ==
    \E t \in Threads :
        /\ cpc[t] = "idle" /\ ret[t].op = "connect" /\ ret[t].err = "dial_markets"
        /\ conn["private"] = "closed"

\* C9: no socket's Close is called before the signal fired; when Close
\* returns, the Close of every socket the session held has been called, the
\* result is an error exactly when one of them failed, and the session is not
\* connected.
C9_CloseAggregates ==
    /\ [](\A s \in Socks : closeLog[s] # "none" => done)
    /\ [][\A t \in Threads :
            (carg[t].op = "close" /\ cpc'[t] = "idle")
                => /\ \A s \in Socks : conn[s] # "nil" => closeLog'[s] # "none"
                   /\ ret'[t].op = "close"
                   /\ ret'[t].err = "close" <=> \E s \in Socks : closeLog'[s] = "failed"
                   /\ ~connected']_vars

\* The private socket's Close failed, the markets socket's Close was still
\* called and succeeded, and Close returned the error.
C9_Witness ==
    /\ closeLog["private"] = "failed" /\ closeLog["markets"] = "ok"
    /\ \E t \in Threads : ret[t].op = "close" /\ ret[t].err = "close"
    /\ ~connected

\* C10: at most one thread is inside WriteMessage on a socket at a time.
C10_OneWriterPerSocket ==
    \A s \in Socks : Cardinality(writing[s]) <= 1

\* One thread is inside WriteMessage on a socket while another waits for the
\* mutex to send on the same socket.
C10_Witness ==
    \E a, b \in Threads :
        /\ cpc[a] = "send_write" /\ cpc[b] = "send_lock"
        /\ Target(carg[a]) = Target(carg[b])

\* C11: a subscribe or unsubscribe that finds its target connection nil
\* returns the not-connected error and no request id, and writes no frame: no
\* socket's record of written frames changes, the caller never enters
\* WriteMessage, and no caller is ever inside WriteMessage on a nil connection.
C11_NotConnected ==
    /\ [](\A t \in Threads :
            cpc[t] = "send_write" => conn[Target(carg[t])] # "nil")
    /\ [][\A t \in Threads :
            (cpc[t] = "send_check" /\ conn[Target(carg[t])] = "nil"
                /\ cpc'[t] # "send_check")
                => /\ cpc'[t] = "idle"
                   /\ ret'[t].err = "not_connected"
                   /\ ret'[t].id = NoRet.id
                   /\ sent' = sent
                   /\ writing' = writing]_vars

\* Before any Connect, a subscribe and an unsubscribe have both returned the
\* not-connected error, and nothing was written.
C11_Witness ==
    /\ \A s \in Socks : conn[s] = "nil" /\ sent[s] = <<>>
    /\ \E t, u \in Threads :
          /\ ret[t].op = "subscribe" /\ ret[t].err = "not_connected"
          /\ ret[u].op = "unsubscribe" /\ ret[u].err = "not_connected"

\* C12: a session never owns more than one private connection, one markets
\* connection and two reader goroutines: a Connect on a session that is
\* connected or closed dials nothing and starts no reader.
C12_SingleConnect ==
    /\ \A s \in Socks : live[s] <= 1
    /\ spawned <= 2

\* C13: once Close has closed the done channel, no IsConnected call returns
\* true, whatever is called afterwards.
C13_ClosedIsTerminal ==
    [][\A t \in Threads :
            (done /\ cpc[t] = "isconnected" /\ cpc'[t] = "idle") => ~ret'[t].val]_vars

\* C14: a consumer waiting on the channel is released when the session ends:
\* once Close has returned, both readers are gone and the channel is empty,
\* so that no message can come any more, the consumer's receive can still
\* complete.  (Receive is the only way the channel lets a consumer go on;
\* nothing in the code closes c.messages.  A consumer that also selects on a
\* context of its own, as handleWSMessages does, is released by its caller
\* cancelling that context, not by the session.)
C14_ConsumerReleased ==
    (/\ done
     /\ \A t \in Threads : cpc[t] = "idle"
     /\ \A s \in Socks : rpc[s] \in {"none", "exit"}
     /\ messages = <<>>)
        => ENABLED Receive

\* C15: a frame that json.Unmarshal rejects puts nothing in the channel and
\* leaves its reader in the loop (back at the select, not returned); and
\* every frame that decodes, is no heartbeat, arrived on the same socket
\* after a rejected one, has been handled and was not dropped on a full
\* channel, has been put in the channel, once, with its fields.
C15_MalformedSkipped ==
    /\ [][\A s \in Socks :
            (rpc[s] = "handle" /\ ~rframe[s].frame.ok /\ rpc'[s] # "handle")
                => /\ rpc'[s] = "select"
                   /\ messages' = messages
                   /\ dropped' = dropped
                   /\ delivered' = delivered]_vars
    /\ [](\A n, m \in 1..Len(wire) :
            (/\ n < m /\ wire[n].sock = wire[m].sock
             /\ ~wire[n].frame.ok
             /\ wire[m].frame.ok /\ "heartbeat" \notin wire[m].frame.keys
             /\ m \notin InHand /\ m \notin dropped)
                => \E i \in 1..Len(Enqueued) :
                      /\ Enqueued[i] = [sock |-> wire[m].sock, seq |-> m,
                                        fields |-> wire[m].frame.keys]
                      /\ Copies(Enqueued, m) = 1)

\* Two malformed frames arrived on a socket, then a data frame on the same
\* socket, and that frame is in the channel.
C15_Witness ==
    /\ Len(wire) = 3
    /\ ~wire[1].frame.ok /\ ~wire[2].frame.ok
    /\ wire[1].sock = wire[3].sock /\ wire[2].sock = wire[3].sock
    /\ \E i \in 1..Len(messages) : messages[i].seq = 3

\* C16: a reader whose ReadMessage does not return a frame returns: the step
\* puts nothing in the channel and leaves the other reader where it was; a
\* reader that has returned stays so, and no message of its socket is put in
\* the channel afterwards; and while one reader is gone after a read error,
\* the other, holding a frame, can still handle it.
C16_ReadErrorEndsReader ==
    /\ [][\A s \in Socks :
            (rpc[s] = "read" /\ rpc'[s] \notin {"read", "handle"})
                => /\ rpc'[s] = "exit"
                   /\ messages' = messages /\ delivered' = delivered
                   /\ rframe' = rframe
                   /\ \A o \in Socks \ {s} : rpc'[o] = rpc[o]]_vars
    /\ [][\A s \in Socks :
            rpc[s] = "exit"
                => /\ rpc'[s] = "exit"
                   /\ \A i \in (Len(Enqueued) + 1)..Len(Enqueued') :
                         Enqueued'[i].sock # s]_vars
    /\ [](\A s \in Socks, o \in Socks :
            (rpc[s] = "exit" /\ rpc[o] = "handle") => ENABLED ReaderHandle(o))

\* The private reader is gone after a read error (Close has not been
\* called), its earlier message is still queued, and the markets reader
\* holds a data frame that arrived later.
C16_Witness ==
    /\ ~done /\ rpc["private"] = "exit" /\ rpc["markets"] = "handle"
    /\ Forwarded(rframe["markets"].frame)
    /\ \E i \in 1..Len(messages) :
          messages[i].sock = "private" /\ messages[i].seq < rframe["markets"].seq

\* C17: whether or not the consumer ever receives, a reader that holds a
\* frame gets back to ReadMessage (or returns because the session closed),
\* so every frame that has arrived is eventually handled.  The readers are
\* fairly scheduled; the consumer is under no obligation at all.
C17_ReadersNeverStall ==
    /\ \A s \in Socks : (rpc[s] = "handle") ~> (rpc[s] \in {"read", "exit"})
    /\ \A n \in 1..MaxFrames :
          (Len(wire) >= n) ~> (Len(wire) >= n /\ n \notin InHand)

\* Nothing was ever received, the channel is full, a frame was dropped, and
\* the reader that dropped it is back in ReadMessage.
C17_Witness ==
    /\ delivered = <<>> /\ Len(messages) = QueueCap
    /\ \E n \in dropped : rpc[wire[n].sock] = "read"

\* C18: a send on a full channel leaves the channel's contents and order as
\* they were.  With the capacity of 100, nobody receiving and 101 data frames
\* arriving on one socket, the channel holds the first 100 in their order of
\* arrival and exactly the 101st is dropped.
C18_DropNewest ==
    /\ [][Len(messages) = ChanCap => messages' = messages]_vars
    /\ [](/\ Len(messages) <= ChanCap
          /\ \A i \in 1..Len(messages) :
                messages[i] = [sock |-> FloodSock, seq |-> i,
                               fields |-> {"marketData"}]
          /\ Len(messages) = Cardinality({n \in 1..Len(wire) :
                                            n <= ChanCap /\ n \notin InHand})
          /\ dropped = {n \in 1..Len(wire) : n > ChanCap /\ n \notin InHand})

\* 101 frames have arrived and been handled: 100 are queued, the last dropped.
C18_Witness ==
    /\ Len(wire) = ChanCap + 1 /\ InHand = {}
    /\ Len(messages) = ChanCap /\ dropped = {ChanCap + 1}
    /\ delivered = <<>>

\* C19: no step of an Unsubscribe call changes the request-id counter, the
\* ids issued or the channel; its write step, when WriteMessage succeeds,
\* appends one unsubscribe frame carrying the id passed, whether or not the
\* session ever issued it, to the private socket's frames if isPrivate and to
\* the markets socket's otherwise, and to no other; every other step of the
\* call writes nothing; and a call returns nil only from that write step.
C19_Unsubscribe ==
    [][\A t \in Threads :
        ((carg[t].op = "unsubscribe" \/ carg'[t].op = "unsubscribe")
            /\ cpc'[t] # cpc[t])
        => /\ requestID' = requestID /\ issued' = issued
           /\ messages' = messages /\ delivered' = delivered
           /\ LET s == IF carg[t].priv THEN "private" ELSE "markets"
              IN IF cpc[t] = "send_write" /\ ret'[t].err = "none"
                 THEN /\ Len(sent'[s]) = Len(sent[s]) + 1
                      /\ SubSeq(sent'[s], 1, Len(sent[s])) = sent[s]
                      /\ sent'[s][Len(sent'[s])].type = "unsubscribe"
                      /\ sent'[s][Len(sent'[s])].request_id = carg[t].id
                      /\ \A o \in Socks \ {s} : sent'[o] = sent[o]
                 ELSE /\ sent' = sent
                      /\ cpc'[t] = "idle" => ret'[t].err # "none"]_vars

\* An Unsubscribe with an id the session never issued has returned nil: the
\* private socket carries that one frame, the counter is still 0.
C19_Witness ==
    /\ \E t \in Threads : ret[t].op = "unsubscribe" /\ ret[t].err = "none"
    /\ Len(sent["private"]) = 1
    /\ sent["private"][1].type = "unsubscribe"
    /\ sent["private"][1].request_id = UnknownID
    /\ sent["markets"] = <<>> /\ requestID = 0

\* C20: on a session used within its life cycle, IsConnected returns true
\* exactly when a Connect has succeeded in full (its readers were started)
\* and no Close has run (the done channel is open), and false before any
\* Connect, after a Connect that failed at either dial, and after Close;
\* this with other threads inside their own calls.  The flag itself agrees
\* with that whenever the mutex is free.
C20_IsConnected ==
    /\ [][\A t \in Threads :
            (cpc[t] = "isconnected" /\ cpc'[t] = "idle")
                => /\ ret'[t].op = "isconnected"
                   /\ ret'[t].val = (spawned > 0 /\ ~done)]_vars
    /\ [](mu = NoOne => (connected = (spawned > 0 /\ ~done)))

\* One IsConnected returned true on the connected session and, after Close,
\* another returned false.
C20_Witness ==
    /\ done
    /\ \E t, u \in Threads :
          /\ ret[t].op = "isconnected" /\ ret[t].val
          /\ ret[u].op = "isconnected" /\ ~ret[u].val

\* C21: a subscribe request that is marshalled and decoded again has the
\* request id and the subscription type it was built with, the same market
\* slugs (a nil or empty list comes back as nil) and the same debounce flag.
\* For SubscribeMarketData(["m1"], true): subscription_type 1, market_slugs
\* ["m1"], responses_debounced true, the request id preserved.
C21_SubscribeRoundTrip ==
    enc.stage = "decoded" =>
        LET sub == enc.msg.Subscribe
            back == enc.back.Subscribe
        IN /\ back.RequestID = enc.id
           /\ back.SubscriptionType = SubscriptionType(enc.kind)
           /\ back.MarketSlugs.elems = sub.MarketSlugs.elems
           /\ back.MarketSlugs.nil = (sub.MarketSlugs.elems = <<>>)
           /\ back.ResponsesDebounced = sub.ResponsesDebounced
           /\ (enc.kind = "marketdata" /\ enc.slugs = Slice(<<"m1">>) /\ enc.debounced)
                 => /\ enc.frame.subscribe.subscription_type = 1
                    /\ enc.frame.subscribe.market_slugs = <<"m1">>
                    /\ enc.frame.subscribe.responses_debounced = TRUE
                    /\ back.SubscriptionType = 1
                    /\ back.MarketSlugs = Slice(<<"m1">>)
                    /\ back.ResponsesDebounced = TRUE

\* SubscribeMarketData(["m1"], true) with the id "marketdata-12" has been
\* marshalled and decoded.
C21_Witness ==
    /\ enc.stage = "decoded"
    /\ enc.kind = "marketdata" /\ enc.slugs = Slice(<<"m1">>) /\ enc.debounced
    /\ enc.back.Subscribe.RequestID = "marketdata-12"

\* C28: the marshalled subscribe object always has request_id and
\* subscription_type and no key besides the four; it has market_slugs exactly
\* when the operation passed a market list that is not empty (never for
\* SubscribeBalances), and responses_debounced, with the value true, exactly
\* when the operation is SubscribeMarketData called with debounce true.
C28_OptionalFields ==
    enc.stage \in {"marshalled", "decoded"} =>
        LET obj == enc.frame.subscribe
        IN /\ {"request_id", "subscription_type"} \subseteq DOMAIN obj
           /\ DOMAIN obj \subseteq {"request_id", "subscription_type",
                                     "market_slugs", "responses_debounced"}
           /\ ("market_slugs" \in DOMAIN obj)
                 <=> (enc.kind # "balance" /\ enc.slugs.elems # <<>>)
           /\ "market_slugs" \in DOMAIN obj => obj.market_slugs = enc.slugs.elems
           /\ ("responses_debounced" \in DOMAIN obj)
                 <=> (enc.kind = "marketdata" /\ enc.debounced)
           /\ "responses_debounced" \in DOMAIN obj => obj.responses_debounced = TRUE

\* A SubscribeTrades with an empty, non-nil market list has been marshalled:
\* the object has the two mandatory keys only.
C28_Witness ==
    /\ enc.stage = "marshalled" /\ enc.kind = "trade"
    /\ enc.slugs = Slice(<<>>)
    /\ DOMAIN enc.frame.subscribe = {"request_id", "subscription_type"}

\* C22: the message SignRequest signs is the timestamp's decimal text, the
\* method and the URL's path, one after the other with nothing between, the
\* query not in it.  For GET /v1/portfolio/positions?limit=10 at
\* 1704067200000 on the default base URL it is
\* "1704067200000GET/v1/portfolio/positions".
C22_SignedMessage ==
    (sig.op = "SignRequest" /\ sig.stage \in {"message", "signed"}) =>
        /\ sig.message =
              sig.timestamp \o sig.req.Method \o sig.cfg.BaseURL.Path
                \o Join(SubSeq(sig.target, 1, QueryAt(sig.target) - 1))
        /\ (/\ sig.req.Method = "GET"
            /\ sig.target = <<"/v1/portfolio/positions", "?", "limit=10">>
            /\ sig.timestamp = "1704067200000"
            /\ sig.cfg.BaseURL.Path = "")
              => sig.message = "1704067200000GET/v1/portfolio/positions"

\* The scenario's request has been signed.
C22_Witness ==
    /\ sig.op = "SignRequest" /\ sig.stage = "signed"
    /\ sig.req.Method = "GET"
    /\ sig.target = <<"/v1/portfolio/positions", "?", "limit=10">>
    /\ sig.req.URL.RawQuery = "limit=10"
    /\ sig.timestamp = "1704067200000"
    /\ sig.cfg.BaseURL.Path = ""

\* C29: in Connect the private handshake's signature is over its own
\* timestamp, GET and /v1/ws/private, the markets handshake's over its own
\* timestamp, GET and /v1/ws/markets; each carries the timestamp it signed,
\* and the two signatures differ, also when both were made in the same
\* millisecond.
C29_PerSocketHeaders ==
    /\ (sig.op = "Connect" /\ sig.stage \in {"private", "markets"}) =>
          /\ sig.privateHeaders["X-PM-Timestamp"] = <<FormatDigits(sig.privateNow)>>
          /\ sig.privateHeaders["X-PM-Signature"] =
                Base64(Ed25519Sign(sig.cfg.PrivateKey,
                    FormatDigits(sig.privateNow) \o "GET" \o "/v1/ws/private"))
    /\ (sig.op = "Connect" /\ sig.stage = "markets") =>
          /\ sig.marketsHeaders["X-PM-Timestamp"] = <<FormatDigits(sig.marketsNow)>>
          /\ sig.marketsHeaders["X-PM-Signature"] =
                Base64(Ed25519Sign(sig.cfg.PrivateKey,
                    FormatDigits(sig.marketsNow) \o "GET" \o "/v1/ws/markets"))
          /\ sig.marketsHeaders["X-PM-Signature"] # sig.privateHeaders["X-PM-Signature"]

\* Both handshakes' headers were generated in the same millisecond.
C29_Witness ==
    /\ sig.op = "Connect" /\ sig.stage = "markets"
    /\ sig.privateNow = sig.marketsNow

\* C23: every request that reaches the transport carries the three
\* authentication headers, the signature being that of its own method and
\* path under the timestamp it carries; and when the response's status is
\* outside 200..299, doRequest returns no body and an error whose text has
\* the status code and the response body, and the caller decodes no result.
C23_SignedAndChecked ==
    /\ \A i \in 1..Len(rest.dispatched) :
          LET req == rest.dispatched[i]
          IN /\ {"X-PM-Access-Key", "X-PM-Timestamp", "X-PM-Signature"}
                    \subseteq DOMAIN req.Header
             /\ req.Header["X-PM-Access-Key"] = <<rest.cfg.APIKey>>
             /\ req.Header["X-PM-Signature"] =
                    Base64(Ed25519Sign(rest.cfg.PrivateKey,
                        req.Header["X-PM-Timestamp"][1] \o req.Method \o req.URL.Path))
    /\ (/\ rest.pc \in {"returned", "done"}
        /\ rest.resp # NoResponse
        /\ (rest.resp.StatusCode < 200 \/ rest.resp.StatusCode > 299))
          => /\ rest.ret.body = ""
             /\ rest.ret.err \in
                   { "failed to read response",
                     "API error " \o FormatInt(rest.resp.StatusCode) \o ": "
                        \o rest.resp.Body }
             /\ rest.result # "decoded"
    /\ rest.pc = "done" /\ rest.result = "decoded"
          => /\ rest.resp.StatusCode \in 200..299
             /\ Len(rest.dispatched) = 1

\* A signed POST with a body was answered 300 with a body that would decode,
\* and the caller holds the error and no result.
C23_Witness ==
    /\ rest.pc = "done" /\ rest.method = "POST" /\ rest.body = "order"
    /\ rest.resp = [StatusCode |-> 300, Body |-> "{}"]
    /\ rest.ret.err = "API error 300: {}"
    /\ rest.result = "nil"
    /\ "Content-Type" \in DOMAIN rest.dispatched[1].Header

\* C24: in the demo, an operation (Connect, a subscribe, a REST call, Close)
\* that returns an error is logged as a warning and does not end the
\* process: the step in which it fails writes the warning and leaves main
\* running, and from every such failure main reaches the clean-up step (or
\* is past it, for Close) and completes.
C24_FailureIsWarning ==
    /\ [][demo'.failed # demo.failed
            => /\ demo.pc \in Operations /\ demo'.failed = demo.pc
               /\ demo'.log = <<"warning", demo.pc>>
               /\ demo'.pc \notin {"fatal", demo.pc}]_vars
    /\ [](demo.pc = "fatal" => demo.failed = "")
    /\ \A op \in Operations :
          /\ (demo.failed = op) ~> (demo.pc \in {"cleanup", "Close", "done", "exited"})
          /\ (demo.failed = op) ~> (demo.pc = "exited")

\* Connect succeeded, the last REST call failed, and main completed with the
\* handler stopped.
C24_Witness ==
    /\ demo.pc = "exited"
    /\ demo.failed = "GetActivities"
    /\ demo.handler = "stopped"

\* C25: the done channel is closed once per session whatever is called:
\* a second Close closes nothing and returns normally, so that no Close ever
\* panics.
C25_SignalOnce == ~crashed

\* C26: Connect dials the private socket before the markets socket and starts
\* the readers only when both dials have succeeded: a caller is at the
\* markets dial only with the private connection stored and open, readers are
\* started only by the step in which the markets dial succeeds, and the step
\* in which the private dial fails returns the error with no connection
\* stored, no dial of the markets socket, no reader started and the session
\* not connected.
C26_DialOrder ==
    /\ [](\A t \in Threads : cpc[t] = "dial_markets" => conn["private"] = "open")
    /\ [](live["markets"] > 0 \/ spawned > 0 => conn["private"] # "nil")
    /\ [][/\ spawned' # spawned
              => \E t \in Threads :
                    /\ cpc[t] = "dial_markets" /\ cpc'[t] = "idle"
                    /\ ret'[t].err = "none"
                    /\ conn'["private"] = "open" /\ conn'["markets"] = "open"
          /\ \A t \in Threads :
                (cpc[t] = "dial_private" /\ cpc'[t] # "dial_private"
                    /\ conn'["private"] # "open")
                => /\ cpc'[t] = "idle"
                   /\ ret'[t].op = "connect" /\ ret'[t].err = "dial_private"
                   /\ conn' = conn /\ live' = live
                   /\ spawned' = spawned /\ rpc' = rpc
                   /\ ~connected']_vars

\* Connect has returned the private dial's error: both slots are empty, no
\* connection is live, no reader exists, the session is not connected.
C26_Witness ==
    /\ \E t \in Threads :
          cpc[t] = "idle" /\ ret[t].op = "connect" /\ ret[t].err = "dial_private"
    /\ \A s \in Socks : conn[s] = "nil" /\ live[s] = 0 /\ rpc[s] = "none"
    /\ spawned = 0 /\ ~connected

\* C27: every message in the channel has exactly one of the payload
\* variants (the eight payload objects, or the error text) set.
C27_ExactlyOneVariant ==
    \A i \in 1..Len(messages) :
        Cardinality(messages[i].fields \cap PayloadVariants) = 1

\* C30: the step in which Connect fails at the markets dial leaves the
\* private slot holding the closed connection and the markets slot empty;
\* from then on a subscribe or unsubscribe for the private socket passes the
\* nil test, enters WriteMessage on the closed connection and returns the
\* write error with nothing written, while one for the markets socket
\* returns the not-connected error.
C30_StalePrivateSocket ==
    [][\A t \in Threads :
        /\ (cpc[t] = "dial_markets" /\ cpc'[t] = "idle" /\ ret'[t].err # "none")
              => /\ ret'[t].err = "dial_markets"
                 /\ conn'["private"] = "closed" /\ conn'["markets"] = "nil"
                 /\ ~connected'
        /\ (/\ conn["private"] = "closed" /\ conn["markets"] = "nil"
            /\ cpc[t] = "send_check" /\ cpc'[t] # "send_check")
              => IF Target(carg[t]) = "private"
                 THEN cpc'[t] = "send_write" /\ t \in writing'["private"]
                 ELSE /\ cpc'[t] = "idle" /\ ret'[t].err = "not_connected"
                      /\ writing' = writing
        /\ (/\ conn["private"] = "closed" /\ conn["markets"] = "nil"
            /\ cpc[t] = "send_write" /\ cpc'[t] # "send_write")
              => /\ Target(carg[t]) = "private"
                 /\ cpc'[t] = "idle"
                 /\ ret'[t].err = "write" /\ ret'[t].id = NoRet.id
                 /\ sent' = sent]_vars

\* Connect failed at the markets dial and nothing was closed by Close; then
\* an unsubscribe for the private socket returned the write error and a
\* subscribe returned the not-connected error.
C30_Witness ==
    /\ conn["private"] = "closed" /\ conn["markets"] = "nil" /\ ~done
    /\ \E t, u \in Threads :
          /\ ret[t].op = "unsubscribe" /\ ret[t].err = "write"
          /\ ret[u].op = "subscribe" /\ ret[u].err = "not_connected"

\* C31: the request-id counter moves only upwards, by one and only in
\* nextRequestID, once for every subscribe call: the values handed out are
\* 1, 2, 3, ... in the order of allocation.  A subscribe whose send fails (no
\* connection, or a write error) returns no id and an error and leaves the
\* counter where it is, so the next subscribe gets the following value.
C31_CounterNeverRolledBack ==
    /\ [](/\ requestID = Len(issued)
          /\ \A i \in 1..Len(issued) : issued[i][2] = i)
    /\ [][/\ requestID' >= requestID
          /\ requestID' # requestID
                => /\ requestID' = requestID + 1
                   /\ \E t \in Threads :
                         /\ cpc[t] = "nid_store" /\ carg[t].op = "subscribe"
                         /\ carg'[t].id = <<carg[t].kind, requestID'>>
          /\ \A t \in Threads :
                (/\ carg[t].op = "subscribe"
                 /\ cpc[t] \in {"send_check", "send_write"} /\ cpc'[t] = "idle"
                 /\ ret'[t].err # "none")
                => /\ ret'[t].id = NoRet.id
                   /\ ret'[t].err \in {"not_connected", "write"}
                   /\ requestID' = requestID /\ requestID >= carg[t].id[2]]_vars

\* A subscribe failed with a write error and returned no id; the other
\* subscribe holds the counter's second value.
C31_Witness ==
    /\ requestID = 2
    /\ \E t, u \in Threads :
          /\ ret[t].op = "subscribe" /\ ret[t].err = "write" /\ ret[t].id = NoRet.id
          /\ carg[u].op = "subscribe" /\ carg[u].id[2] = 2

\* Nobody but the thread has called anything on the session so far.
Solo(t) == \A u \in Threads \ {t} : cpc[u] = "idle" /\ ret[u] = NoRet

\* The counter values of the subscribe frames written on a socket, in the
\* order of writing.
SubscribeFrames(s) == SelectSeq(sent[s], LAMBDA f : f.type = "subscribe")

\* C32: nextRequestID and the send are two critical sections: a caller that
\* has its id and has not yet entered the send does not hold the mutex.  As
\* long as one thread alone has called the session, the subscribe frames on
\* each socket carry strictly increasing counter values.  (With two callers
\* the order can be reversed: C32_Witness.)
C32_TwoCriticalSections ==
    /\ \A t \in Threads : cpc[t] = "send_lock" => mu # t
    /\ \A t \in Threads :
          Solo(t) => \A s \in Socks : \A i, j \in 1..Len(SubscribeFrames(s)) :
                        i < j => SubscribeFrames(s)[i].request_id[2]
                                    < SubscribeFrames(s)[j].request_id[2]

\* Two subscribes on the same socket: the frame with counter value 2 was
\* written before the frame with counter value 1.
C32_Witness ==
    \E s \in Socks :
        /\ Len(SubscribeFrames(s)) = 2
        /\ SubscribeFrames(s)[1].request_id[2] = 2
        /\ SubscribeFrames(s)[2].request_id[2] = 1

\* How far a reader is from the test of done at the top of its loop: in
\* ReadMessage, holding a frame, at the test, gone.
StepsToSelect(pc) ==
    CASE pc = "read" -> 3 [] pc = "handle" -> 2 [] pc = "select" -> 1 [] OTHER -> 0

\* The reader of socket s puts a message into the channel in this step.
EnqueuedBy(s) ==
    /\ Len(messages') = Len(messages) + 1
    /\ messages'[Len(messages')].sock = s
    /\ messages'[Len(messages')].seq = rframe[s].seq

\* C33: a reader looks at done only at the top of its loop.  Once done is
\* closed a reader only moves towards that test and leaves at it: from
\* ReadMessage to the frame in hand, from there to the test, from the test
\* out.  It sends to the channel only in the step from the frame in hand to
\* the test, that is at most once, so at most two messages are sent after
\* the signal.
C33_OneMoreMessage ==
    [][done => \A s \in Socks :
          /\ StepsToSelect(rpc'[s]) <= StepsToSelect(rpc[s])
          /\ rpc[s] = "select" /\ rpc'[s] # "select" => rpc'[s] = "exit"
          /\ EnqueuedBy(s) => rpc[s] = "handle" /\ rpc'[s] = "select"
          /\ messages' # messages /\ Len(messages') >= Len(messages)
                => \E r \in Socks : EnqueuedBy(r)]_vars

\* Close has closed done while each reader holds a frame it will forward, and
\* the channel has room for both.
C33_Witness ==
    /\ done /\ messages = <<>>
    /\ \A s \in Socks : rpc[s] = "handle" /\ Forwarded(rframe[s].frame)

\* C34: the connected flag changes only in Connect's last step and in Close.
\* A reader that ends leaves the flag and both connection slots as they are:
\* while Close has not been called and a reader has ended on a read error,
\* the flag is true and both slots hold their connections, IsConnected
\* returns true and a subscribe goes on to WriteMessage.
C34_OnlyConnectAndCloseSetFlag ==
    /\ [](((\E s \in Socks : rpc[s] = "exit") /\ ~CloseCalled)
            => connected /\ \A s \in Socks : conn[s] = "open")
    /\ [][/\ connected' # connected
              => \E t \in Threads :
                    \/ cpc[t] = "dial_markets" /\ connected'
                    \/ cpc[t] = "close_markets" /\ ~connected'
          /\ \A s \in Socks :
                (rpc[s] \in {"select", "read"} /\ rpc'[s] = "exit")
                    => connected' = connected /\ conn' = conn
          /\ \A t \in Threads :
                ((\E s \in Socks : rpc[s] = "exit") /\ ~CloseCalled)
                    => /\ cpc[t] = "isconnected" /\ cpc'[t] = "idle" => ret'[t].val
                       /\ cpc[t] = "send_check" /\ cpc'[t] # "send_check"
                             => cpc'[t] = "send_write"]_vars

\* Both readers have ended on read errors and Close has not been called:
\* IsConnected has returned true and a subscribe is inside WriteMessage.
C34_Witness ==
    /\ \A s \in Socks : rpc[s] = "exit"
    /\ ~CloseCalled
    /\ \E t, u \in Threads :
          /\ ret[t].op = "isconnected" /\ ret[t].val
          /\ cpc[u] = "send_write"

\* Where a caller holds the mutex, and where it waits for it.
InCriticalSection ==
    {"dial_private", "dial_markets", "close_private", "close_markets",
     "nid_load", "nid_store", "send_check", "send_write"}
AtLock == {"connect_lock", "close_lock", "nid_lock", "send_lock", "isconnected"}

\* C35: the mutex is held by a thread exactly while that thread is between
\* the Lock and the return of Connect, Close, nextRequestID or a send: a
\* thread about to lock does not hold it (no second acquisition), a thread
\* that has returned has released it, on the error paths too, and no reader
\* step changes it.  With the transport calls returning, every call made
\* returns.
C35_NoMutexDeadlock ==
    /\ [](\A t \in Threads :
            /\ mu = t <=> cpc[t] \in InCriticalSection
            /\ cpc[t] \in AtLock \cup {"idle"} => mu # t)
    /\ [][\A s \in Socks :
            (rpc[s] # "none" /\ rpc'[s] # rpc[s]) => mu' = mu]_vars
    /\ \A t \in Threads : (cpc[t] # "idle") ~> (cpc[t] = "idle")

\* A send has returned the not-connected error and a Connect has returned
\* the markets dial's error, both on their error paths, and the mutex is free.
C35_Witness ==
    /\ mu = NoOne
    /\ \E t, u \in Threads :
          /\ cpc[t] = "idle" /\ ret[t].err = "not_connected"
          /\ cpc[u] = "idle" /\ ret[u].op = "connect" /\ ret[u].err = "dial_markets"

\* C36: one mutex serialises Connect, Close, IsConnected and the sends on
\* both sockets.  While a thread is inside WriteMessage it holds the mutex;
\* the other thread is in no critical section, cannot enter a send on either
\* socket, cannot close done and cannot read the flag; and as long as the
\* write has not returned, done, the connections and the flag stay as they
\* are and no other call returns.
C36_OneMutexForAll ==
    /\ [](\A t \in Threads : cpc[t] = "send_write" =>
            /\ mu = t
            /\ \A u \in Threads \ {t} :
                  /\ cpc[u] \notin InCriticalSection
                  /\ ~ENABLED SendLock(u)
                  /\ ~ENABLED CloseSignal(u)
                  /\ ~ENABLED ConnectLock(u)
                  /\ ~ENABLED IsConnected(u))
    /\ [][\A t \in Threads :
            (cpc[t] = "send_write" /\ cpc'[t] = "send_write")
                => /\ done' = done /\ conn' = conn /\ connected' = connected
                   /\ sent' = sent /\ ret' = ret]_vars

\* A thread is inside WriteMessage on the markets socket while the other
\* waits for the mutex to send on the private socket.
C36_Witness ==
    \E t, u \in Threads :
        /\ cpc[t] = "send_write" /\ Target(carg[t]) = "markets"
        /\ cpc[u] = "send_lock" /\ Target(carg[u]) = "private"

\* C37: the subscription_type number does not tell the kind (order and
\* market data are both 1, position and trade both 3), the socket and the
\* number together do: two kinds with the same socket and number are the
\* same kind, and two subscribe frames written on one socket with the same
\* number were written by the same Subscribe function.
C37_SocketAndTypeIdentifyKind ==
    /\ SubscriptionType("order") = SubscriptionType("marketdata")
    /\ SubscriptionType("position") = SubscriptionType("trade")
    /\ \A k1, k2 \in Kinds :
          (SendSocket(k1) = SendSocket(k2) /\ SubscriptionType(k1) = SubscriptionType(k2))
              => k1 = k2
    /\ \A s \in Socks : \A i, j \in 1..Len(SubscribeFrames(s)) :
          SubscribeFrames(s)[i].subscription_type = SubscribeFrames(s)[j].subscription_type
              => SubscribeFrames(s)[i].request_id[1] = SubscribeFrames(s)[j].request_id[1]

\* An order subscribe was written on the private socket and a market-data
\* subscribe on the markets socket, both with subscription_type 1.
C37_Witness ==
    /\ \E i \in 1..Len(sent["private"]) :
          /\ sent["private"][i].request_id[1] = "order"
          /\ sent["private"][i].subscription_type = 1
    /\ \E i \in 1..Len(sent["markets"]) :
          /\ sent["markets"][i].request_id[1] = "marketdata"
          /\ sent["markets"][i].subscription_type = 1

\* C38: no step of Close changes the channel: the messages in it stay, in
\* their order, and after Close has closed done the consumer can still
\* receive whenever the channel is not empty, getting the oldest message.
C38_CloseKeepsQueue ==
    /\ [](done /\ messages # <<>> => ENABLED Receive)
    /\ [][/\ (cpc[Ctl] \in {"close_lock", "close_private", "close_markets"}
                /\ cpc'[Ctl] # cpc[Ctl])
              => messages' = messages /\ delivered' = delivered
          /\ (done /\ Len(delivered') > Len(delivered))
              => /\ delivered' = Append(delivered, Head(messages))
                 /\ messages' = Tail(messages)]_vars

\* Close has returned with two messages in the channel; the consumer has
\* received the first of them afterwards.
C38_Witness ==
    /\ done /\ cpc[Ctl] = "idle" /\ ret[Ctl].op = "close"
    /\ \A s \in Socks : rpc[s] = "exit"
    /\ Len(delivered) = 1 /\ Len(messages) = 1
    /\ delivered[1].seq < messages[1].seq

\* Whether the timestamp is within 300000 ms of the clock, as numbers.
WithinWindow == sig.near /\ sig.real <= 300000 /\ 0 - sig.real <= 300000

\* C39: ValidateTimestamp returns nil exactly when the timestamp is at most
\* 300000 ms before or after the clock, and an error otherwise.
C39_WindowIsSymmetric ==
    sig.stage = "returned" => (sig.err <=> ~WithinWindow)

====
